---------------------------- MODULE Spec2Model ----------------------------
(***************************************************************************)
(* A model of the Stay-Fit nutrition engine: the biometric trend analyser  *)
(* and the meal adaptation engine (adaptation.py), the metabolism          *)
(* calculator (metabolism.py, models.py) and the meal optimiser and plan   *)
(* generator (ml_models.py, meal_planner.py).                              *)
(*                                                                         *)
(* Numbers.  The Python code computes in floating point.  The model        *)
(* computes exactly, in integers:                                          *)
(*  - an average is kept as the pair <<sum, count>> and compared with a    *)
(*    threshold by cross-multiplication; a standard deviation is compared  *)
(*    through the variance n*sum(x^2) - sum(x)^2;                          *)
(*  - a meal quantity (calories, protein, carbs, fat) is a fixed-point     *)
(*    number with Scale ticks per unit, and Scale is chosen so that every  *)
(*    multiplier of every chain of adaptation strategies divides exactly   *)
(*    (MulRat stops the model checker if it ever does not);                *)
(*  - an energy value of the metabolism calculator is a fixed-point number *)
(*    with KScale ticks per kcal.                                          *)
(***************************************************************************)
EXTENDS Integers, Sequences, FiniteSets, TLC

VARIABLES
    \* ---- adaptation.py: one call of MealAdaptationEngine.adapt_meal_plan
    samples,        \* the biometric_data argument (input order)
    meals,          \* the meals argument
    pc,             \* position of the call: "start", "adapting", "done"
    analysis,       \* the result of analyze_biometric_trends
    adapted,        \* adapted_meals (the returned meal list once pc = "done")
    explanations,   \* adaptations_made
    idx,            \* index of the next tag of adaptations_needed to apply
    before,         \* the meal list as it was before the last applied strategy
    last_tag,       \* the tag of the last applied strategy ("none" before)
    \* ---- metabolism.py: one call of the calculator on a profile
    profile,        \* the UserProfile argument
    rate,           \* rate_kg_per_week, in quarters of a kg
    mpc,            \* "idle", "start" or the name of the call that returned
    mresult,        \* the value that call returned
    recent_biometrics,  \* the recent_biometrics / biometric_data argument
    adaptive,       \* the adaptive argument of calculate_tdee
    \* ---- ml_models.py / meal_planner.py: one call on a food pool
    pool,           \* the food pool (available_foods, nutrition_db.local_foods)
    dietary_preferences,    \* the profile's DietaryPreferences
    target,         \* target_calories['calories'] of the optimizer call, kcal
    user_data,      \* the user_data argument of an engine call
    meal_count,     \* the meal_count argument of an engine call
    predictor,      \* the satisfaction predictor of the generator / optimizer
    rated_before,   \* an earlier call on this instance had rated meal history
    ppc,            \* "idle", "start" or the name of the call that returned
    presult,        \* the value that call returned
    dietary_preference, \* standalone generate_meal_plan: dietary_preference
    allergies,      \* its allergies argument
    demo_meal_count,    \* its meal_count argument
    dpc,            \* "idle", "start", "meals", "returned" or "raised"
    all_meals,      \* the meals created so far
    dresult,        \* what the call returned or raised
    profile_biometric_data, \* UserProfile.biometric_data of one profile
    profile_meal_history,   \* UserProfile.meal_history of that profile
    clock,          \* datetime.now() / date.today(), in days
    calls,          \* the number of add_... calls made on the profile
    hpc,            \* "idle", "ready" or the name of the call that returned
    last_call,      \* the entry that call added and both lists before it
    profile_preferred_foods,    \* UserProfile.preferred_foods of one profile
    profile_avoided_foods,      \* UserProfile.avoided_foods of that profile
    updates,        \* the number of update_food_preferences calls made
    fpc,            \* "idle", "ready" or "update_food_preferences"
    last_update     \* the arguments of the last call and both lists before it

vars == <<samples, meals, pc, analysis, adapted, explanations, idx, before,
          last_tag, profile, rate, mpc, mresult, recent_biometrics,
          adaptive, pool, dietary_preferences, target, user_data,
          meal_count, predictor, rated_before, ppc, presult,
          dietary_preference, allergies, demo_meal_count, dpc, all_meals,
          dresult, profile_biometric_data, profile_meal_history, clock,
          calls, hpc, last_call, profile_preferred_foods, profile_avoided_foods, updates,
          fpc, last_update>>

adaptVars == <<samples, meals, pc, analysis, adapted, explanations, idx,
               before, last_tag>>
metabVars == <<profile, rate, mpc, mresult, recent_biometrics, adaptive>>
historyVars == <<profile_biometric_data, profile_meal_history, clock, calls, hpc, last_call>>
prefVars  == <<profile_preferred_foods, profile_avoided_foods, updates, fpc, last_update>>
demoVars  == <<dietary_preference, allergies, demo_meal_count, dpc, all_meals, dresult>>
planVars  == <<pool, dietary_preferences, target, user_data, meal_count, predictor, rated_before, ppc, presult>>

-----------------------------------------------------------------------------
(* Bounds of the model *)

MaxSamples == 2     \* longest biometric sample list
MaxMeals == 1       \* longest meal list handed to adapt_meal_plan
MaxFoods == 2       \* largest food pool
MaxHistory == 3     \* longest biometric history of a metabolism call

-----------------------------------------------------------------------------
(* Generic helpers *)

None == -1          \* Optional[...] = None of a BiometricData field

RECURSIVE SumSeq(_)
SumSeq(s) == IF s = <<>> THEN 0 ELSE Head(s) + SumSeq(Tail(s))

RECURSIVE SumSq(_)
SumSq(s) == IF s = <<>> THEN 0 ELSE Head(s) * Head(s) + SumSq(Tail(s))

RECURSIVE MaxSeq(_)
MaxSeq(s) == IF Len(s) = 1 THEN s[1]
             ELSE LET m == MaxSeq(Tail(s)) IN IF s[1] > m THEN s[1] ELSE m

RECURSIVE MinSeq(_)
MinSeq(s) == IF Len(s) = 1 THEN s[1]
             ELSE LET m == MinSeq(Tail(s)) IN IF s[1] < m THEN s[1] ELSE m

Abs(x) == IF x < 0 THEN -x ELSE x

SeqsUpTo(S, n) == UNION {[1..k -> S] : k \in 0..n}

\* a division that would not be exact has no value
ExactDiv(x, b) == CASE x % b = 0 -> x \div b


-----------------------------------------------------------------------------
(* config.py and BiometricAnalyzer.__init__: thresholds *)

HIGH_GLUCOSE_THRESHOLD == 140
LOW_ACTIVITY_THRESHOLD == 5000
POOR_SLEEP_THRESHOLD == 6
GlucoseLow == 70
HeartRateHigh == 100
HeartRateVariabilityHigh == 20
WeightChangeSignificant == 2
DaysBack == 7

\* datetime.now() of the call, as a day number
Now == 10

-----------------------------------------------------------------------------
(* The biometric samples the model draws its inputs from *)

TsRecent == Now - 1
TsCutoff == Now - DaysBack          \* exactly on the edge of the window
TsOld    == Now - DaysBack - 1      \* one day too old

Blank(t) == [timestamp |-> t, steps |-> None, heart_rate |-> None,
             sleep_hours |-> None, glucose_mg_dl |-> None, weight_kg |-> None]

Full(t, g, st, sl, hr, w) ==
    [timestamp |-> t, steps |-> st, heart_rate |-> hr, sleep_hours |-> sl,
     glucose_mg_dl |-> g, weight_kg |-> w]

GlucoseVals == {60, 95, 150, 165, 170}
StepVals    == {2000, 8000}
SleepVals   == {5, 8}
HeartVals   == {60, 110, 170}
WeightVals  == {70, 73}

\* Samples that measure one metric, a sample that measures nothing, and
\* samples that measure everything: two alarming ones, one on the edge of
\* the window and one outside it.
SampleDom ==
    {[Blank(TsRecent) EXCEPT !.glucose_mg_dl = g] : g \in GlucoseVals}
    \cup {[Blank(TsRecent) EXCEPT !.steps = v] : v \in StepVals}
    \cup {[Blank(TsRecent) EXCEPT !.sleep_hours = v] : v \in SleepVals}
    \cup {[Blank(TsRecent) EXCEPT !.heart_rate = v] : v \in HeartVals}
    \cup {[Blank(TsRecent) EXCEPT !.weight_kg = v] : v \in WeightVals}
    \cup {Blank(TsRecent),
          Full(TsRecent, 170, 2000, 5, 170, 73),
          Full(TsRecent, 150, 2000, 5, 60, 70),
          Full(TsCutoff, 150, 2000, 5, 60, 72),
          Full(TsOld, 170, 2000, 5, 170, 73)}

-----------------------------------------------------------------------------
(* adaptation.py: BiometricAnalyzer *)

\* sorted(biometric_data, key=lambda x: x.timestamp): a stable sort
RECURSIVE InsertByTimestamp(_, _)
InsertByTimestamp(d, s) ==
    IF s = <<>> THEN <<d>>
    ELSE IF d.timestamp < Head(s).timestamp THEN <<d>> \o s
    ELSE <<Head(s)>> \o InsertByTimestamp(d, Tail(s))

RECURSIVE SortByTimestamp(_)
SortByTimestamp(data) ==
    IF data = <<>> THEN <<>>
    ELSE InsertByTimestamp(data[Len(data)],
                           SortByTimestamp(SubSeq(data, 1, Len(data) - 1)))

\* mutant of InWindow: the filter to the last N days is missing
InWindowAlways(d) == TRUE

InWindow(d) == d.timestamp >= Now - DaysBack

\* recent_data = [d for d in sorted_data if d.timestamp >= cutoff_date]
RecentData(data) == SelectSeq(SortByTimestamp(data), InWindow)

\* [d.<field> for d in data if d.<field> is not None]
RECURSIVE FieldValues(_, _)
FieldValues(data, f) ==
    IF data = <<>> THEN <<>>
    ELSE (IF Head(data)[f] # None THEN <<Head(data)[f]>> ELSE <<>>)
         \o FieldValues(Tail(data), f)

\* np.mean(values) as the pair <<sum, count>>
Mean(values) == <<SumSeq(values), Len(values)>>
MeanLT(avg, t) == avg[1] < t * avg[2]
MeanLE(avg, t) == avg[1] <= t * avg[2]
MeanGT(avg, t) == avg[1] > t * avg[2]
MeanGE(avg, t) == avg[1] >= t * avg[2]

\* n^2 times the (population) variance of np.std(values)
VarN2(values) == Len(values) * SumSq(values) - SumSeq(values) * SumSeq(values)
\* np.std(values) > t
StdGT(values, t) == VarN2(values) > t * t * Len(values) * Len(values)

\* sum of i * values[i+1] for the indices i = 0 .. n-1 of np.arange
RECURSIVE IndexDot(_, _)
IndexDot(values, i) ==
    IF values = <<>> THEN 0
    ELSE i * Head(values) + IndexDot(Tail(values), i + 1)

RECURSIVE SumTo(_)
SumTo(n) == IF n <= 0 THEN 0 ELSE n + SumTo(n - 1)
RECURSIVE SumSqTo(_)
SumSqTo(n) == IF n <= 0 THEN 0 ELSE n * n + SumSqTo(n - 1)

\* slope of np.polyfit(arange(n), values, 1) is SlopeNum / SlopeDen
SlopeNum(values) ==
    Len(values) * IndexDot(values, 0) - SumTo(Len(values) - 1) * SumSeq(values)
SlopeDen(values) ==
    Len(values) * SumSqTo(Len(values) - 1)
    - SumTo(Len(values) - 1) * SumTo(Len(values) - 1)

_calculate_trend_direction(values) ==
    IF Len(values) < 2 THEN "stable"
    ELSE IF 10 * SlopeNum(values) > SlopeDen(values) THEN "increasing"
    ELSE IF 10 * SlopeNum(values) < -SlopeDen(values) THEN "decreasing"
    ELSE "stable"

\* mutant of _glucose_status_classification: "elevated" reaches up to 130
_glucose_status_classification_130(avg) ==
    IF MeanLT(avg, 70) THEN "low"
    ELSE IF MeanGE(avg, 70) /\ MeanLE(avg, 100) THEN "normal"
    ELSE IF MeanGT(avg, 100) /\ MeanLE(avg, 130) THEN "elevated"
    ELSE "high"

_glucose_status_classification(avg) ==
    IF MeanLT(avg, 70) THEN "low"
    ELSE IF MeanGE(avg, 70) /\ MeanLE(avg, 100) THEN "normal"
    ELSE IF MeanGT(avg, 100) /\ MeanLE(avg, 125) THEN "elevated"
    ELSE "high"

_activity_status_classification(avg) ==
    IF MeanLT(avg, 3000) THEN "sedentary"
    ELSE IF MeanGE(avg, 3000) /\ MeanLE(avg, 7000) THEN "low"
    ELSE IF MeanGT(avg, 7000) /\ MeanLE(avg, 12000) THEN "moderate"
    ELSE "high"

_sleep_status_classification(avg) ==
    IF MeanLT(avg, 6) THEN "insufficient"
    ELSE IF MeanGE(avg, 6) /\ MeanLE(avg, 7) THEN "borderline"
    ELSE IF MeanGT(avg, 7) /\ MeanLE(avg, 9) THEN "adequate"
    ELSE "excessive"

_heart_rate_status_classification(avg) ==
    IF MeanLT(avg, 60) THEN "low"
    ELSE IF MeanGE(avg, 60) /\ MeanLE(avg, 80) THEN "normal"
    ELSE IF MeanGT(avg, 80) /\ MeanLE(avg, 100) THEN "elevated"
    ELSE "high"

NoData == [status |-> "no_data", alerts |-> <<>>, adaptations |-> <<>>]
InsufficientData ==
    [status |-> "insufficient_data", alerts |-> <<>>, adaptations |-> <<>>]

_analyze_glucose_trends(data) ==
    LET glucose_values == FieldValues(data, "glucose_mg_dl")
        avg_glucose == Mean(glucose_values)
        max_glucose == MaxSeq(glucose_values)
        high == max_glucose > HIGH_GLUCOSE_THRESHOLD
    IN  IF glucose_values = <<>> THEN NoData
        ELSE [average |-> avg_glucose,
              maximum |-> max_glucose,
              trend |-> _calculate_trend_direction(glucose_values),
              status |-> _glucose_status_classification(avg_glucose),
              alerts |->
                 (IF high
                  THEN <<[kind |-> "high_glucose", value |-> <<max_glucose, 1>>]>>
                  ELSE <<>>)
                 \o (IF MeanLT(avg_glucose, GlucoseLow)
                     THEN <<[kind |-> "low_glucose", value |-> avg_glucose]>>
                     ELSE <<>>),
              adaptations |-> IF high THEN <<"HIGH_GLUCOSE">> ELSE <<>>]

\* consistency = 1 - std / max(avg, 1) < 0.5, i.e. 2 * std > max(avg, 1)
Inconsistent(values) ==
    IF SumSeq(values) >= Len(values)
    THEN 4 * VarN2(values) > SumSeq(values) * SumSeq(values)
    ELSE 4 * VarN2(values) > Len(values) * Len(values)

_analyze_activity_trends(data) ==
    LET step_values == FieldValues(data, "steps")
        avg_steps == Mean(step_values)
        low == MeanLT(avg_steps, LOW_ACTIVITY_THRESHOLD)
    IN  IF step_values = <<>> THEN NoData
        ELSE [average_steps |-> avg_steps,
              minimum_steps |-> MinSeq(step_values),
              status |-> _activity_status_classification(avg_steps),
              alerts |->
                 (IF low
                  THEN <<[kind |-> "low_activity", value |-> avg_steps]>>
                  ELSE <<>>)
                 \o (IF Inconsistent(step_values)
                     THEN <<[kind |-> "inconsistent_activity",
                             value |-> avg_steps]>>
                     ELSE <<>>),
              adaptations |-> IF low THEN <<"LOW_ACTIVITY">> ELSE <<>>]

\* sleep_debt = max(0, 7.5 - avg_sleep) * len(sleep_values), in half hours
SleepDebtHalves(values) ==
    IF 15 * Len(values) > 2 * SumSeq(values)
    THEN 15 * Len(values) - 2 * SumSeq(values) ELSE 0

_analyze_sleep_trends(data) ==
    LET sleep_values == FieldValues(data, "sleep_hours")
        avg_sleep == Mean(sleep_values)
        poor == MeanLT(avg_sleep, POOR_SLEEP_THRESHOLD)
    IN  IF sleep_values = <<>> THEN NoData
        ELSE [average_hours |-> avg_sleep,
              minimum_hours |-> MinSeq(sleep_values),
              sleep_debt |-> <<SleepDebtHalves(sleep_values), 2>>,
              status |-> _sleep_status_classification(avg_sleep),
              alerts |->
                 (IF poor
                  THEN <<[kind |-> "insufficient_sleep", value |-> avg_sleep]>>
                  ELSE <<>>)
                 \o (IF SleepDebtHalves(sleep_values) > 10
                     THEN <<[kind |-> "sleep_debt",
                             value |-> <<SleepDebtHalves(sleep_values), 2>>]>>
                     ELSE <<>>),
              adaptations |-> IF poor THEN <<"POOR_SLEEP">> ELSE <<>>]

\* mutant of _analyze_heart_rate_trends: the tag is appended once however
\* many of the two conditions hold
_analyze_heart_rate_trends_once(data) ==
    LET hr_values == FieldValues(data, "heart_rate")
        avg_hr == Mean(hr_values)
        elevated == MeanGT(avg_hr, HeartRateHigh)
        variable == StdGT(hr_values, HeartRateVariabilityHigh)
    IN  IF hr_values = <<>> THEN NoData
        ELSE [average_bpm |-> avg_hr,
              variability_n2 |-> VarN2(hr_values),
              trend |-> _calculate_trend_direction(hr_values),
              status |-> _heart_rate_status_classification(avg_hr),
              alerts |->
                 (IF elevated
                  THEN <<[kind |-> "elevated_heart_rate", value |-> avg_hr]>>
                  ELSE <<>>)
                 \o (IF variable
                     THEN <<[kind |-> "heart_rate_variability",
                             value |-> avg_hr]>>
                     ELSE <<>>),
              adaptations |->
                 IF elevated \/ variable THEN <<"HIGH_STRESS">> ELSE <<>>]

_analyze_heart_rate_trends(data) ==
    LET hr_values == FieldValues(data, "heart_rate")
        avg_hr == Mean(hr_values)
        elevated == MeanGT(avg_hr, HeartRateHigh)
        variable == StdGT(hr_values, HeartRateVariabilityHigh)
    IN  IF hr_values = <<>> THEN NoData
        ELSE [average_bpm |-> avg_hr,
              variability_n2 |-> VarN2(hr_values),
              trend |-> _calculate_trend_direction(hr_values),
              status |-> _heart_rate_status_classification(avg_hr),
              alerts |->
                 (IF elevated
                  THEN <<[kind |-> "elevated_heart_rate", value |-> avg_hr]>>
                  ELSE <<>>)
                 \o (IF variable
                     THEN <<[kind |-> "heart_rate_variability",
                             value |-> avg_hr]>>
                     ELSE <<>>),
              adaptations |->
                 (IF elevated THEN <<"HIGH_STRESS">> ELSE <<>>)
                 \o (IF variable THEN <<"HIGH_STRESS">> ELSE <<>>)]

\* mutant of _analyze_weight_trends: one weight value is taken as enough
_analyze_weight_trends_one(data) ==
    LET weight_values == FieldValues(data, "weight_kg")
        weight_change == weight_values[Len(weight_values)] - weight_values[1]
    IN  IF Len(weight_values) < 1 THEN InsufficientData
        ELSE [total_change_kg |-> weight_change,
              trend |-> _calculate_trend_direction(weight_values),
              rate_per_day |-> <<weight_change, Len(weight_values)>>,
              alerts |-> <<>>,
              adaptations |-> <<>>]

_analyze_weight_trends(data) ==
    LET weight_values == FieldValues(data, "weight_kg")
        weight_change == weight_values[Len(weight_values)] - weight_values[1]
        significant == Abs(weight_change) > WeightChangeSignificant
    IN  IF Len(weight_values) < 2 THEN InsufficientData
        ELSE [total_change_kg |-> weight_change,
              trend |-> _calculate_trend_direction(weight_values),
              rate_per_day |-> <<weight_change, Len(weight_values)>>,
              alerts |->
                 IF significant
                 THEN <<[kind |-> IF weight_change > 0 THEN "weight_gained"
                                  ELSE "weight_lost",
                         value |-> <<Abs(weight_change), 1>>]>>
                 ELSE <<>>,
              adaptations |-> IF significant THEN <<"WEIGHT_CHANGE">> ELSE <<>>]

Metrics == <<"glucose", "activity", "sleep", "heart_rate", "weight">>

EmptyAnalysis ==
    [trends |-> [m \in {} |-> NoData], alerts |-> <<>>,
     adaptations_needed |-> <<>>]

\* the per-metric records, in the order the analyser computes them
TrendOf(recent, m) ==
    CASE m = "glucose" -> _analyze_glucose_trends(recent)
      [] m = "activity" -> _analyze_activity_trends(recent)
      [] m = "sleep" -> _analyze_sleep_trends(recent)
      [] m = "heart_rate" -> _analyze_heart_rate_trends(recent)
      [] m = "weight" -> _analyze_weight_trends(recent)

\* alerts.extend(...) and adaptations_needed.extend(...), metric by metric;
\* a record's adaptations are taken only when the record has alerts
RECURSIVE Collect(_, _, _)
Collect(trends, field, k) ==
    IF k > Len(Metrics) THEN <<>>
    ELSE (IF trends[Metrics[k]].alerts # <<>>
          THEN trends[Metrics[k]][field] ELSE <<>>)
         \o Collect(trends, field, k + 1)

analyze_biometric_trends(biometric_data) ==
    LET recent_data == RecentData(biometric_data)
        trends == [m \in {Metrics[k] : k \in 1..Len(Metrics)} |->
                      TrendOf(recent_data, m)]
    IN  IF biometric_data = <<>> THEN EmptyAnalysis
        ELSE IF recent_data = <<>> THEN EmptyAnalysis
        ELSE [trends |-> trends,
              alerts |-> Collect(trends, "alerts", 1),
              adaptations_needed |-> Collect(trends, "adaptations", 1),
              data_points |-> Len(recent_data)]

-----------------------------------------------------------------------------
(* Meal quantities: fixed-point numbers, Scale ticks per unit *)

\* 2^10 * 5^7: the least number of ticks that keeps every product of the
\* strategies' multipliers (7/10, 4/5, 11/10, 17/20, 23/20, 19/20, 9/10,
\* 21/20, 51/50) along every chain of tags exact
Scale == 1024 * 78125

\* x * (a / b), exactly
MulRat(x, a, b) == CASE x % b = 0 -> (x \div b) * a

\* protein * 4 + carbs * 4 + fat * 9
MacroCalories(meal) == meal.protein * 4 + meal.carbs * 4 + meal.fat * 9

\* A meal as MealOptimizer builds it: all four quantities present.  raw says
\* that calories is a portion-scaled calories_per_100g (here 10 units) and
\* not the value derived from the macros.
MealOf(c, raw) ==
    LET m == [meal_type |-> "lunch", protein |-> Scale, carbs |-> c,
              fat |-> Scale, calories |-> 0]
    IN  [m EXCEPT !.calories = IF raw THEN 10 * Scale ELSE MacroCalories(m)]

\* a macro-derived meal, an optimiser-style meal and a meal without carbs
MealDom == {MealOf(Scale, FALSE), MealOf(Scale, TRUE), MealOf(0, FALSE)}

-----------------------------------------------------------------------------
(* adaptation.py: MealAdaptationEngine, the strategies *)

\* for nutrient in ['calories', 'protein', 'carbs', 'fat']: meal[nutrient] *= a/b
ScaleAll(meal, a, b) ==
    [meal EXCEPT !.calories = MulRat(@, a, b), !.protein = MulRat(@, a, b),
                 !.carbs = MulRat(@, a, b), !.fat = MulRat(@, a, b)]

Recalculate(meal) == [meal EXCEPT !.calories = MacroCalories(meal)]

MapMeals(ms, Op(_)) == [i \in 1..Len(ms) |-> Op(ms[i])]

\* mutant of GlucoseReduction: the peak above 160 is not distinguished
GlucoseReductionFlat(an) == 8

\* reduction_factor = 0.7 if glucose_info['maximum'] > 160 else 0.8, in tenths
GlucoseReduction(an) == IF an.trends["glucose"].maximum > 160 THEN 7 ELSE 8

HighGlucoseMeal(meal, tenths) ==
    Recalculate([meal EXCEPT !.carbs = MulRat(@, tenths, 10),
                             !.protein = MulRat(@, 11, 10)])

\* int((1 - reduction_factor) * 100) is 30 for 0.7 and, in floating point,
\* 19 for 0.8
_adapt_for_high_glucose(ms, an) ==
    LET r == GlucoseReduction(an)
        AdaptOne(meal) == HighGlucoseMeal(meal, r)
    IN  <<MapMeals(ms, AdaptOne),
          <<"HIGH_GLUCOSE", IF r = 7 THEN 30 ELSE 19,
            an.trends["glucose"].maximum>> >>

LowActivityMeal(meal) == ScaleAll(meal, 17, 20)

_adapt_for_low_activity(ms, an) ==
    <<MapMeals(ms, LowActivityMeal),
      <<"LOW_ACTIVITY", an.trends["activity"].average_steps>> >>

\* mutant of PoorSleepMeal: calories are not recalculated
PoorSleepMealStale(meal) ==
    [meal EXCEPT !.protein = MulRat(@, 23, 20), !.carbs = MulRat(@, 19, 20)]

PoorSleepMeal(meal) ==
    Recalculate([meal EXCEPT !.protein = MulRat(@, 23, 20),
                             !.carbs = MulRat(@, 19, 20)])

_adapt_for_poor_sleep(ms, an) ==
    <<MapMeals(ms, PoorSleepMeal),
      <<"POOR_SLEEP", an.trends["sleep"].average_hours>> >>

HighStressMeal(meal) == ScaleAll(meal, 19, 20)

_adapt_for_high_stress(ms, an) ==
    <<MapMeals(ms, HighStressMeal),
      <<"HIGH_STRESS", an.trends["heart_rate"].average_bpm>> >>

WeightGainMeal(meal) == ScaleAll(meal, 9, 10)

WeightLossMeal(meal) ==
    [meal EXCEPT !.protein = MulRat(@, 11, 10), !.calories = MulRat(@, 21, 20),
                 !.carbs = MulRat(@, 51, 50), !.fat = MulRat(@, 51, 50)]

\* mutant of _adapt_for_weight_change: the branches start at 3 kg
_adapt_for_weight_change_3(ms, an) ==
    LET weight_change == an.trends["weight"].total_change_kg
    IN  IF weight_change > 3
        THEN <<MapMeals(ms, WeightGainMeal),
               <<"WEIGHT_CHANGE", "gain", weight_change>> >>
        ELSE IF weight_change < -3
        THEN <<MapMeals(ms, WeightLossMeal),
               <<"WEIGHT_CHANGE", "loss", Abs(weight_change)>> >>
        ELSE <<ms, <<>> >>

\* the third branch returns the empty explanation ""
_adapt_for_weight_change(ms, an) ==
    LET weight_change == an.trends["weight"].total_change_kg
    IN  IF weight_change > 1
        THEN <<MapMeals(ms, WeightGainMeal),
               <<"WEIGHT_CHANGE", "gain", weight_change>> >>
        ELSE IF weight_change < -1
        THEN <<MapMeals(ms, WeightLossMeal),
               <<"WEIGHT_CHANGE", "loss", Abs(weight_change)>> >>
        ELSE <<ms, <<>> >>

\* self.adaptation_strategies[adaptation_reason](adapted_meals, analysis, profile)
Strategy(tag, ms, an) ==
    CASE tag = "HIGH_GLUCOSE" -> _adapt_for_high_glucose(ms, an)
      [] tag = "LOW_ACTIVITY" -> _adapt_for_low_activity(ms, an)
      [] tag = "POOR_SLEEP" -> _adapt_for_poor_sleep(ms, an)
      [] tag = "HIGH_STRESS" -> _adapt_for_high_stress(ms, an)
      [] tag = "WEIGHT_CHANGE" -> _adapt_for_weight_change(ms, an)

-----------------------------------------------------------------------------
(* adaptation.py: MealAdaptationEngine.adapt_meal_plan, step by step *)

MetabIdle ==
    /\ profile = [age |-> 0, sex |-> "male", weight_kg |-> 0, height_cm |-> 0,
                  activity_level |-> "SEDENTARY"]
    /\ rate = 0
    /\ mpc = "idle"
    /\ mresult = <<>>
    /\ recent_biometrics = <<>>
    /\ adaptive = TRUE

\* MealSatisfactionPredictor(): self.trained = False
FreshPredictor == [trained |-> FALSE, rating |-> None]


HistoryIdle ==
    /\ profile_biometric_data = <<>>
    /\ profile_meal_history = <<>>
    /\ clock = 0
    /\ calls = 0
    /\ hpc = "idle"
    /\ last_call = <<>>

PrefIdle ==
    /\ profile_preferred_foods = <<>>
    /\ profile_avoided_foods = <<>>
    /\ updates = 0
    /\ fpc = "idle"
    /\ last_update = <<>>

DemoIdle ==
    /\ dietary_preference = "non_vegetarian"
    /\ allergies = {}
    /\ demo_meal_count = 3
    /\ dpc = "idle"
    /\ all_meals = <<>>
    /\ dresult = <<>>

PlanIdle ==
    /\ pool = <<>>
    /\ dietary_preferences =
           [allergies |-> {}, dislikes |-> {}, dietary_restrictions |-> {}]
    /\ target = 0
    /\ user_data = [name |-> "Test User"]
    /\ meal_count = 3
    /\ predictor = FreshPredictor
    /\ rated_before = FALSE
    /\ ppc = "idle"
    /\ presult = <<>>

AdaptIdle ==
    /\ samples = <<>>
    /\ meals = <<>>
    /\ pc = "idle"
    /\ analysis = EmptyAnalysis
    /\ adapted = <<>>
    /\ explanations = <<>>
    /\ idx = 1
    /\ before = <<>>
    /\ last_tag = "none"

Init ==
    /\ samples \in SeqsUpTo(SampleDom, MaxSamples)
    /\ meals \in SeqsUpTo(MealDom, MaxMeals)
    /\ pc = "start"
    /\ analysis = EmptyAnalysis
    /\ adapted = <<>>
    /\ explanations = <<>>
    /\ idx = 1
    /\ before = <<>>
    /\ last_tag = "none"
    /\ MetabIdle
    /\ PlanIdle
    /\ DemoIdle
    /\ HistoryIdle
    /\ PrefIdle

\* analysis = self.analyzer.analyze_biometric_trends(biometric_data), then
\* either "return meals, []" or the copy of the meals that the loop adapts
Analyze ==
    /\ pc = "start"
    /\ analysis' = analyze_biometric_trends(samples)
    /\ adapted' = meals
    /\ explanations' = <<>>
    /\ idx' = 1
    /\ pc' = IF analysis'.adaptations_needed = <<>> THEN "done" ELSE "adapting"
    /\ UNCHANGED <<samples, meals, before, last_tag>>
    /\ UNCHANGED <<metabVars, planVars, demoVars, historyVars, prefVars>>

\* mutant of ApplyStrategy: every strategy is applied to the original meals
ApplyStrategyOnOriginal ==
    /\ pc = "adapting"
    /\ LET tag == analysis.adaptations_needed[idx]
           out == Strategy(tag, meals, analysis)
       IN  /\ adapted' = out[1]
           /\ explanations' = IF out[2] # <<>> THEN Append(explanations, out[2])
                              ELSE explanations
           /\ before' = adapted
           /\ last_tag' = tag
    /\ idx' = idx + 1
    /\ pc' = IF idx = Len(analysis.adaptations_needed) THEN "done"
             ELSE "adapting"
    /\ UNCHANGED <<samples, meals, analysis>>
    /\ UNCHANGED <<metabVars, planVars, demoVars, historyVars, prefVars>>

\* one iteration of "for adaptation_reason in analysis['adaptations_needed']"
ApplyStrategy ==
    /\ pc = "adapting"
    /\ LET tag == analysis.adaptations_needed[idx]
           out == Strategy(tag, adapted, analysis)
       IN  /\ adapted' = out[1]
           /\ explanations' = IF out[2] # <<>> THEN Append(explanations, out[2])
                              ELSE explanations
           /\ before' = adapted
           /\ last_tag' = tag
    /\ idx' = idx + 1
    /\ pc' = IF idx = Len(analysis.adaptations_needed) THEN "done"
             ELSE "adapting"
    /\ UNCHANGED <<samples, meals, analysis>>
    /\ UNCHANGED <<metabVars, planVars, demoVars, historyVars, prefVars>>

Next == Analyze \/ ApplyStrategy

Spec == Init /\ [][Next]_vars

-----------------------------------------------------------------------------
(* metabolism.py and models.py: energy requirements.  Energy is fixed point,
   KScale ticks per kcal, which holds every product below exactly; a rate of
   weight change is counted in quarters of a kg per week. *)

KScale == 8 * 1000

Kcal(n) == n * KScale

Max2(a, b) == IF a >= b THEN a ELSE b
Min2(a, b) == IF a <= b THEN a ELSE b

\* str.lower() on the spellings of the profile domain
Lower(s) == IF s = "Male" THEN "male" ELSE s

\* class ActivityLevel(Enum): the value of a level, in thousandths
ActivityValue(level) ==
    CASE level = "SEDENTARY" -> 1200
      [] level = "LIGHTLY_ACTIVE" -> 1375
      [] level = "MODERATELY_ACTIVE" -> 1550
      [] level = "VERY_ACTIVE" -> 1725
      [] level = "EXTREMELY_ACTIVE" -> 1900

ActivityLevels == {"SEDENTARY", "LIGHTLY_ACTIVE", "MODERATELY_ACTIVE",
                   "VERY_ACTIVE", "EXTREMELY_ACTIVE"}

\* the profiles a call is made on: the scenario profile of the
\* specification (32, male, 75 kg, 180 cm), small and old bodies whose
\* expenditure lies under the 1200 kcal floor, and the mixtures of these
ProfileDom ==
    [age : {32, 70, 85}, sex : {"male", "Male", "female"},
     weight_kg : {35, 45, 75}, height_cm : {140, 150, 180},
     activity_level : ActivityLevels]

\* the profile of the scenario of the specification
ScenarioProfile ==
    [age |-> 32, sex |-> "male", weight_kg |-> 75, height_cm |-> 180,
     activity_level |-> "MODERATELY_ACTIVE"]

\* rate_kg_per_week, in quarters of a kg: -0.5, 0, 0.5 (the default), 1.0
RateVals == {-2, 0, 2, 4}

\* mutant of _mifflin_st_jeor: the height coefficient is 6 instead of 6.25
_mifflin_st_jeor_h6(p) ==
    IF Lower(p.sex) = "male"
    THEN Kcal(10 * p.weight_kg) + Kcal(6 * p.height_cm) - Kcal(5 * p.age)
         + Kcal(5)
    ELSE Kcal(10 * p.weight_kg) + Kcal(6 * p.height_cm) - Kcal(5 * p.age)
         - Kcal(161)

\* 10 * weight_kg + 6.25 * height_cm - 5 * age + 5 (male) or - 161
_mifflin_st_jeor(p) ==
    IF Lower(p.sex) = "male"
    THEN Kcal(10 * p.weight_kg) + (Kcal(25 * p.height_cm) \div 4)
         - Kcal(5 * p.age) + Kcal(5)
    ELSE Kcal(10 * p.weight_kg) + (Kcal(25 * p.height_cm) \div 4)
         - Kcal(5 * p.age) - Kcal(161)

\* MetabolismCalculator.calculate_bmr with the default formula
\* BMRFormula.MIFFLIN_ST_JEOR, the only one calculate_tdee asks for
calculate_bmr(p) == _mifflin_st_jeor(p)

\* mutant of UserProfile_calculate_bmr: the sex is not looked at
UserProfile_calculate_bmr_unisex(p) ==
    Kcal(10 * p.weight_kg) + (Kcal(25 * p.height_cm) \div 4)
    - Kcal(5 * p.age) - Kcal(161)

\* UserProfile.calculate_bmr
UserProfile_calculate_bmr(p) ==
    IF Lower(p.sex) = "male"
    THEN Kcal(10 * p.weight_kg) + (Kcal(25 * p.height_cm) \div 4)
         - Kcal(5 * p.age) + Kcal(5)
    ELSE Kcal(10 * p.weight_kg) + (Kcal(25 * p.height_cm) \div 4)
         - Kcal(5 * p.age) - Kcal(161)

\* self.adaptive_factors of a fresh calculator: every factor 1.0, in
\* thousandths
adaptive_factors ==
    [sleep_quality |-> 1000, stress_level |-> 1000,
     glucose_regulation |-> 1000, activity_consistency |-> 1000,
     recovery_status |-> 1000]

\* calculate_tdee(profile) without recent_biometrics: the estimated body fat
\* is passed on to calculate_bmr, which ignores it for Mifflin-St Jeor, and
\* the branch "not adaptive or not recent_biometrics" returns
calculate_tdee(p) ==
    LET bmr == calculate_bmr(p)
        base_tdee == (bmr \div 1000) * ActivityValue(p.activity_level)
    IN  [bmr |-> bmr, base_tdee |-> base_tdee, adaptive_tdee |-> base_tdee,
         adaptive_factors |-> adaptive_factors]

\* An exact product of several factors does not fit the integers of the
\* model checker, so products are natural numbers in limbs of four decimal
\* digits, least significant limb first and without leading zero limbs.
Limb == 100 * 100

\* b * k + carry, for a limb sequence b and small naturals k, carry
RECURSIVE BigMulAdd(_, _, _)
BigMulAdd(b, k, carry) ==
    IF b = <<>>
    THEN IF carry = 0 THEN <<>>
         ELSE <<carry % Limb>> \o BigMulAdd(<<>>, k, carry \div Limb)
    ELSE LET v == Head(b) * k + carry
         IN  <<v % Limb>> \o BigMulAdd(Tail(b), k, v \div Limb)

BigOf(n) == BigMulAdd(<<>>, 0, n)
BigMul(b, k) == BigMulAdd(b, k, 0)

RECURSIVE BigAdd(_, _, _)
BigAdd(a, b, carry) ==
    IF a = <<>> /\ b = <<>>
    THEN IF carry = 0 THEN <<>> ELSE <<carry>>
    ELSE LET v == (IF a = <<>> THEN 0 ELSE Head(a))
                  + (IF b = <<>> THEN 0 ELSE Head(b)) + carry
         IN  <<v % Limb>>
             \o BigAdd(IF a = <<>> THEN a ELSE Tail(a),
                       IF b = <<>> THEN b ELSE Tail(b), v \div Limb)

\* a * n for a positive limb sequence a and a positive integer n
RECURSIVE BigTimes(_, _)
BigTimes(a, n) ==
    IF n < Limb THEN BigMul(a, n)
    ELSE BigAdd(BigMul(a, n % Limb), <<0>> \o BigTimes(a, n \div Limb), 0)

RECURSIVE BigLess(_, _)
BigLess(a, b) ==
    IF Len(a) # Len(b) THEN Len(a) < Len(b)
    ELSE IF a = <<>> THEN FALSE
    ELSE IF a[Len(a)] # b[Len(b)] THEN a[Len(a)] < b[Len(b)]
    ELSE BigLess(SubSeq(a, 1, Len(a) - 1), SubSeq(b, 1, Len(b) - 1))

\* np.prod(list(adaptive_factors.values())), in the insertion order of
\* self.adaptive_factors; the factors are thousandths, so the product counts
\* in units of 10^-15
Prod(factors) ==
    BigMul(BigMul(BigMul(BigMul(BigOf(factors.sleep_quality),
                                factors.stress_level),
                         factors.glucose_regulation),
                  factors.activity_consistency),
           factors.recovery_status)

\* sorted(recent_biometrics, key=lambda x: x.timestamp, reverse=True): a
\* stable sort, most recent first
RECURSIVE InsertByTimestampReverse(_, _)
InsertByTimestampReverse(d, s) ==
    IF s = <<>> THEN <<d>>
    ELSE IF d.timestamp > Head(s).timestamp THEN <<d>> \o s
    ELSE <<Head(s)>> \o InsertByTimestampReverse(d, Tail(s))

RECURSIVE SortByTimestampReverse(_)
SortByTimestampReverse(data) ==
    IF data = <<>> THEN <<>>
    ELSE InsertByTimestampReverse(data[Len(data)],
             SortByTimestampReverse(SubSeq(data, 1, Len(data) - 1)))

\* biometrics[-n:] and biometrics[:n]
LastN(s, n) == IF Len(s) <= n THEN s ELSE SubSeq(s, Len(s) - n + 1, Len(s))
FirstN(s, n) == IF Len(s) <= n THEN s ELSE SubSeq(s, 1, n)

\* mutant of _calculate_sleep_factor: the baseline below six hours is 0.96
_calculate_sleep_factor_096(biometrics) ==
    LET sleep_hours == FieldValues(LastN(biometrics, 7), "sleep_hours")
        avg_sleep == Mean(sleep_hours)
    IN  IF sleep_hours = <<>> THEN 1000
        ELSE IF MeanGE(avg_sleep, 7) /\ MeanLE(avg_sleep, 9) THEN 1000
        ELSE IF MeanLT(avg_sleep, 6)
        THEN 960 - ExactDiv(20 * (6 * avg_sleep[2] - avg_sleep[1]),
                            avg_sleep[2])
        ELSE IF MeanGT(avg_sleep, 10) THEN 980
        ELSE 1000

\* 0.95 - (6 - avg_sleep) * 0.02 below six hours, in thousandths
_calculate_sleep_factor(biometrics) ==
    LET sleep_hours == FieldValues(LastN(biometrics, 7), "sleep_hours")
        avg_sleep == Mean(sleep_hours)
    IN  IF sleep_hours = <<>> THEN 1000
        ELSE IF MeanGE(avg_sleep, 7) /\ MeanLE(avg_sleep, 9) THEN 1000
        ELSE IF MeanLT(avg_sleep, 6)
        THEN 950 - ExactDiv(20 * (6 * avg_sleep[2] - avg_sleep[1]),
                            avg_sleep[2])
        ELSE IF MeanGT(avg_sleep, 10) THEN 980
        ELSE 1000

_calculate_glucose_factor(biometrics) ==
    LET glucose_readings == FieldValues(LastN(biometrics, 5), "glucose_mg_dl")
        avg_glucose == Mean(glucose_readings)
    IN  IF glucose_readings = <<>> THEN 1000
        ELSE IF MeanGT(avg_glucose, 140) THEN 920
        ELSE IF MeanGT(avg_glucose, 120) THEN 960
        ELSE IF MeanGE(avg_glucose, 70) /\ MeanLE(avg_glucose, 100) THEN 1020
        ELSE 1000

\* np.std(values) / np.mean(values) < num / 100, for a positive mean
VariabilityLT(values, num) ==
    100 * 100 * VarN2(values) < num * num * SumSeq(values) * SumSeq(values)

\* steps are counted in hundreds inside, to keep the variance small
_calculate_activity_factor(biometrics) ==
    LET raw == FieldValues(LastN(biometrics, 7), "steps")
        steps == [i \in 1..Len(raw) |-> ExactDiv(raw[i], 100)]
        avg_steps == Mean(steps)
        low(num) == IF avg_steps[1] > 0 THEN VariabilityLT(steps, num)
                    ELSE TRUE
    IN  IF Len(steps) < 3 THEN 1000
        ELSE IF MeanGT(avg_steps, 100) /\ low(30) THEN 1050
        ELSE IF MeanGT(avg_steps, 80) /\ low(40) THEN 1020
        ELSE IF MeanLT(avg_steps, 30) THEN 950
        ELSE 1000

_calculate_stress_factor(biometrics) ==
    LET hr_readings == FieldValues(LastN(biometrics, 5), "heart_rate")
        avg_hr == Mean(hr_readings)
        n == Len(hr_readings)
    IN  IF n < 3 THEN 1000
        ELSE IF MeanGT(avg_hr, 80) \/ StdGT(hr_readings, 15) THEN 960
        ELSE IF /\ MeanGE(avg_hr, 60) /\ MeanLE(avg_hr, 70)
                /\ VarN2(hr_readings) < 10 * 10 * n * n
        THEN 1020
        ELSE 1000

\* score / indicators of one sample, in sixths; None when nothing is measured
RecoveryIndicator(bio) ==
    LET score ==
            (IF bio.sleep_hours # None /\ 7 <= bio.sleep_hours
                /\ bio.sleep_hours <= 9 THEN 1 ELSE 0)
            + (IF bio.heart_rate # None /\ 60 <= bio.heart_rate
                  /\ bio.heart_rate <= 75 THEN 1 ELSE 0)
            + (IF bio.steps # None /\ bio.steps >= 5000 THEN 1 ELSE 0)
        indicators ==
            (IF bio.sleep_hours # None THEN 1 ELSE 0)
            + (IF bio.heart_rate # None THEN 1 ELSE 0)
            + (IF bio.steps # None THEN 1 ELSE 0)
    IN  IF indicators > 0 THEN ExactDiv(6 * score, indicators) ELSE None

_calculate_recovery_factor(biometrics) ==
    LET recent == FirstN(biometrics, 3)
        scored == [i \in 1..Len(recent) |-> RecoveryIndicator(recent[i])]
        recovery_indicators == SelectSeq(scored, LAMBDA x : x # None)
        avg_recovery == Mean(recovery_indicators)  \* in sixths
    IN  IF recovery_indicators = <<>> THEN 1000
        ELSE IF 10 * avg_recovery[1] > 48 * avg_recovery[2] THEN 1030
        ELSE IF 10 * avg_recovery[1] > 36 * avg_recovery[2] THEN 1010
        ELSE IF 10 * avg_recovery[1] < 18 * avg_recovery[2] THEN 940
        ELSE 1000

_calculate_adaptive_factors(recent_biometrics_arg) ==
    LET sorted_biometrics == SortByTimestampReverse(recent_biometrics_arg)
    IN  IF recent_biometrics_arg = <<>> THEN adaptive_factors
        ELSE [sleep_quality |-> _calculate_sleep_factor(sorted_biometrics),
              stress_level |-> _calculate_stress_factor(sorted_biometrics),
              glucose_regulation |->
                  _calculate_glucose_factor(sorted_biometrics),
              activity_consistency |->
                  _calculate_activity_factor(sorted_biometrics),
              recovery_status |->
                  _calculate_recovery_factor(sorted_biometrics)]

\* the record of the adaptive branch of calculate_tdee:
\* adaptive_tdee = base_tdee * adaptive_multiplier
TdeeRecord(base, factors, adaptive_multiplier) ==
    [bmr |-> base.bmr, base_tdee |-> base.base_tdee,
     adaptive_tdee |-> BigTimes(adaptive_multiplier, base.base_tdee),
     adaptive_factors |-> factors,
     adaptive_multiplier |-> adaptive_multiplier]

\* adaptive_multiplier = np.prod(list(adaptive_factors.values()))
AdaptiveTdee(base, factors) == TdeeRecord(base, factors, Prod(factors))

\* mutant of calculate_tdee_from: the recovery factor is left out of the
\* multiplier
calculate_tdee_from_four(p, recent_biometrics_arg, adaptive_arg) ==
    IF ~adaptive_arg \/ recent_biometrics_arg = <<>> THEN calculate_tdee(p)
    ELSE [AdaptiveTdee(calculate_tdee(p),
                       [_calculate_adaptive_factors(recent_biometrics_arg)
                            EXCEPT !.recovery_status = 1000])
             EXCEPT !.adaptive_factors =
                        _calculate_adaptive_factors(recent_biometrics_arg)]

\* calculate_tdee(profile, recent_biometrics, adaptive).  Without history or
\* with adaptive == False it returns the record of calculate_tdee(profile)
\* above; with history adaptive_multiplier and adaptive_tdee are limb
\* sequences that count in units of 10^-15 (of a tick, for adaptive_tdee)
calculate_tdee_from(p, recent_biometrics_arg, adaptive_arg) ==
    IF ~adaptive_arg \/ recent_biometrics_arg = <<>> THEN calculate_tdee(p)
    ELSE AdaptiveTdee(calculate_tdee(p),
                      _calculate_adaptive_factors(recent_biometrics_arg))

\* mutant of SafetyBounds: the floor is not applied
SafetyBoundsCeilingOnly(goal, min_calories, max_calories) ==
    Min2(goal, max_calories)

\* max(min_calories, min(goals[goal_type], max_calories))
SafetyBounds(goal, min_calories, max_calories) ==
    Max2(min_calories, Min2(goal, max_calories))

\* calculate_calorie_needs_by_goal(profile, goal, rate_kg_per_week); the
\* goal argument is not read.  7700 / 7 kcal a day per kg a week is 275 per
\* quarter
calculate_calorie_needs_by_goal(p, r) ==
    LET tdee_data == calculate_tdee(p)
        base_calories == tdee_data.adaptive_tdee
        daily_calorie_adjustment == r * Kcal(275)
        min_calories ==
            Max2((UserProfile_calculate_bmr(p) \div 10) * 11, Kcal(1200))
        max_calories == (base_calories \div 2) * 3
    IN  [maintenance |->
             SafetyBounds(base_calories, min_calories, max_calories),
         weight_loss |->
             SafetyBounds(base_calories - Abs(daily_calorie_adjustment),
                          min_calories, max_calories),
         weight_gain |->
             SafetyBounds(base_calories + Abs(daily_calorie_adjustment),
                          min_calories, max_calories),
         min_safe_calories |-> min_calories,
         max_safe_calories |-> max_calories,
         tdee_breakdown |-> tdee_data]

\* n thousandths in the units of an adaptive_multiplier
Thousandths(n) == <<0, 0, 0>> \o BigOf(n)

\* the exception a call raises, as a value
Raised(exception, message) ==
    [raised |-> TRUE, exception |-> exception, message |-> message]

\* recommendations and adaptations_active of get_metabolic_insights, as
\* pairs
Advice(factors) ==
    (IF factors.sleep_quality < 950
     THEN <<<<"Improve sleep quality and duration",
              "Sleep-adjusted metabolism">>>> ELSE <<>>)
    \o (IF factors.glucose_regulation < 950
        THEN <<<<"Focus on blood sugar stability",
                 "Glucose-regulated adjustments">>>> ELSE <<>>)
    \o (IF factors.activity_consistency < 980
        THEN <<<<"Maintain consistent daily activity",
                 "Activity-based adjustments">>>> ELSE <<>>)
    \o (IF factors.stress_level < 980
        THEN <<<<"Implement stress management techniques",
                 "Stress-response adjustments">>>> ELSE <<>>)

\* the insights dictionary of get_metabolic_insights
Insights(factors, multiplier, advice) ==
    [raised |-> FALSE,
     metabolic_rate |->
         IF BigLess(Thousandths(1050), multiplier) THEN "high"
         ELSE IF BigLess(multiplier, Thousandths(950)) THEN "low"
         ELSE "normal",
     recommendations |-> [i \in 1..Len(advice) |-> advice[i][1]],
     adaptations_active |-> [i \in 1..Len(advice) |-> advice[i][2]],
     health_indicators |->
         [metabolic_flexibility |-> multiplier,
          sleep_efficiency |-> factors.sleep_quality,
          glucose_stability |-> factors.glucose_regulation,
          activity_consistency |-> factors.activity_consistency,
          stress_resilience |-> factors.stress_level,
          recovery_capacity |-> factors.recovery_status]]

\* get_metabolic_insights after "tdee_data = self.calculate_tdee(...)"
InsightsOf(tdee_data) ==
    IF "adaptive_multiplier" \notin DOMAIN tdee_data
    THEN Raised("KeyError", "'adaptive_multiplier'")
    ELSE Insights(tdee_data.adaptive_factors, tdee_data.adaptive_multiplier,
                  Advice(tdee_data.adaptive_factors))

\* get_metabolic_insights(profile, recent_biometrics): the record returned by
\* the branch "not adaptive or not recent_biometrics" of calculate_tdee has
\* no key 'adaptive_multiplier', and reading it raises KeyError
get_metabolic_insights(p, recent_biometrics_arg) ==
    InsightsOf(calculate_tdee_from(p, recent_biometrics_arg, TRUE))

\* The biometric histories the metabolism calculator is run on: a sample of
\* a good day, one of a bad day, one in between, and one that measures
\* nothing, on different days
HistorySampleDom ==
    {Full(TsRecent, 95, 12000, 8, 65, 70),
     Full(TsCutoff, 150, 2000, 5, 110, 73),
     Full(TsOld, 130, 9000, 11, 75, 70),
     Blank(Now)}

HistoryDom == SeqsUpTo(HistorySampleDom, MaxHistory)

\* profiles that are run with a history
HistoryProfiles ==
    {ScenarioProfile,
     [age |-> 70, sex |-> "female", weight_kg |-> 45, height_cm |-> 150,
      activity_level |-> "SEDENTARY"]}

InitMetab ==
    /\ profile \in ProfileDom
    /\ rate \in RateVals
    /\ mpc = "start"
    /\ mresult = <<>>
    /\ \/ /\ recent_biometrics = <<>>
          /\ adaptive = TRUE
       \/ /\ profile \in HistoryProfiles
          /\ rate = 2
          /\ recent_biometrics \in HistoryDom
          /\ adaptive \in BOOLEAN
    /\ AdaptIdle
    /\ PlanIdle
    /\ DemoIdle
    /\ HistoryIdle
    /\ PrefIdle

\* MetabolismCalculator().calculate_bmr(profile)
CalculateBmr ==
    /\ mpc = "start"
    /\ mresult' = calculate_bmr(profile)
    /\ mpc' = "calculate_bmr"
    /\ UNCHANGED <<profile, rate, recent_biometrics, adaptive, adaptVars, planVars, demoVars, historyVars, prefVars>>

\* profile.calculate_bmr()
ProfileCalculateBmr ==
    /\ mpc = "start"
    /\ mresult' = UserProfile_calculate_bmr(profile)
    /\ mpc' = "UserProfile.calculate_bmr"
    /\ UNCHANGED <<profile, rate, recent_biometrics, adaptive, adaptVars, planVars, demoVars, historyVars, prefVars>>

\* MetabolismCalculator().calculate_tdee(profile)
CalculateTdee ==
    /\ mpc = "start"
    /\ mresult' = calculate_tdee(profile)
    /\ mpc' = "calculate_tdee"
    /\ UNCHANGED <<profile, rate, recent_biometrics, adaptive, adaptVars, planVars, demoVars, historyVars, prefVars>>

\* MetabolismCalculator().calculate_calorie_needs_by_goal(profile, goal, rate)
CalculateCalorieNeedsByGoal ==
    /\ mpc = "start"
    /\ mresult' = calculate_calorie_needs_by_goal(profile, rate)
    /\ mpc' = "calculate_calorie_needs_by_goal"
    /\ UNCHANGED <<profile, rate, recent_biometrics, adaptive, adaptVars, planVars, demoVars, historyVars, prefVars>>

\* MetabolismCalculator().calculate_tdee(profile, recent_biometrics, adaptive)
CalculateTdeeFrom ==
    /\ mpc = "start"
    /\ mresult' = calculate_tdee_from(profile, recent_biometrics, adaptive)
    /\ mpc' = "calculate_tdee_from"
    /\ UNCHANGED <<profile, rate, recent_biometrics, adaptive, adaptVars, planVars, demoVars, historyVars, prefVars>>

\* MetabolismCalculator().get_metabolic_insights(profile, recent_biometrics)
GetMetabolicInsights ==
    /\ mpc = "start"
    /\ mresult' = get_metabolic_insights(profile, recent_biometrics)
    /\ mpc' = "get_metabolic_insights"
    /\ UNCHANGED <<profile, rate, recent_biometrics, adaptive, adaptVars, planVars, demoVars, historyVars, prefVars>>

NextMetab ==
    \/ CalculateBmr
    \/ ProfileCalculateBmr
    \/ CalculateTdee
    \/ CalculateCalorieNeedsByGoal
    \/ CalculateTdeeFrom
    \/ GetMetabolicInsights

SpecMetab == InitMetab /\ [][NextMetab]_vars

-----------------------------------------------------------------------------
(* metabolism.py: calculate_tdee on histories longer than the windows of the
   adaptive factors, and on short histories with many sleep values *)

MaxWindow == 8      \* longest history of the window runs
MaxShort == 2       \* longest history of the sleep runs

\* a sample of a calm day and one of a strained day
Calm(t) == Full(t, 95, 12000, 12, 65, 70)
Strained(t) == Full(t, 150, 2000, 5, 110, 73)

\* histories with one sample a day, the oldest first and the newest of
\* yesterday
WindowHistories ==
    UNION {{[i \in 1..n |-> IF i \in calm THEN Calm(Now - 1 - (n - i))
                            ELSE Strained(Now - 1 - (n - i))] :
               calm \in SUBSET (1..n)} : n \in 1..MaxWindow}

SleepHours == {0, 3, 4, 5, 6, 7, 9, 10, 11}

\* histories of samples that measure sleep only; the lengths are those for
\* which 0.02 * (6 - avg_sleep) is a whole number of thousandths
ShortHistories ==
    UNION {[1..n -> {[Blank(TsRecent) EXCEPT !.sleep_hours = h] :
                         h \in SleepHours}] :
               n \in {k \in 1..MaxShort : 20 % k = 0}}

InitWindow ==
    /\ profile = ScenarioProfile
    /\ rate = 2
    /\ mpc = "start"
    /\ mresult = <<>>
    /\ recent_biometrics \in WindowHistories \cup ShortHistories
    /\ adaptive = TRUE
    /\ AdaptIdle
    /\ PlanIdle
    /\ DemoIdle
    /\ HistoryIdle
    /\ PrefIdle

SpecWindow == InitWindow /\ [][CalculateTdeeFrom]_vars

-----------------------------------------------------------------------------
(* ml_models.py and meal_planner.py: the optimiser and the plan generator.
   A food carries whole numbers per 100 g and its cost in tenths; scores are
   counted in ten-thousandths, meal quantities in hundredths, and a division
   that would not be exact has no value. *)

Food(name, category, cal, p, c, f, fiber, cost, allergens) ==
    [name |-> name, category |-> category, calories_per_100g |-> cal,
     protein_g |-> p, carbs_g |-> c, fat_g |-> f, fiber_g |-> fiber,
     cost_per_100g |-> cost, allergens |-> allergens]

FoodDom ==
    {Food("chicken breast", "protein", 200, 32, 0, 8, 0, 20, {}),
     Food("rolled oats", "carbohydrate", 400, 16, 64, 8, 8, 5, {"gluten"}),
     Food("broccoli", "vegetable", 40, 4, 8, 0, 4, 10, {}),
     Food("water", "beverage", 0, 0, 0, 0, 0, 1, {})}

\* the words of the keyword lists that occur in a food name ("word in name")
WordsIn(name) ==
    CASE name = "chicken breast" -> {"chicken"}
      [] name = "rolled oats" -> {"oat"}
      [] name = "broccoli" -> {"broccoli"}
      [] name = "turkey breast" -> {"turkey"}
      [] OTHER -> {}

PreferenceDom ==
    [allergies : SUBSET {"gluten"}, dislikes : SUBSET {"broccoli"},
     dietary_restrictions : SUBSET {"VEGETARIAN", "GLUTEN_FREE", "KETO"}]

TargetVals == {1600, 2000}

\* UserProfile._check_dietary_restriction
_check_dietary_restriction(food, restriction) ==
    LET words == WordsIn(food.name)
        meat_keywords == {"chicken", "beef", "pork", "turkey", "fish",
                          "salmon", "tuna", "meat"}
        animal_keywords == meat_keywords \cup
            {"milk", "cheese", "yogurt", "egg", "butter", "honey"}
        gluten_keywords == {"wheat", "bread", "pasta", "oat", "barley", "rye"}
        dairy_keywords == {"milk", "cheese", "yogurt", "butter", "cream"}
    IN  CASE restriction = "VEGETARIAN" -> words \cap meat_keywords = {}
          [] restriction = "VEGAN" -> words \cap animal_keywords = {}
          [] restriction = "GLUTEN_FREE" -> words \cap gluten_keywords = {}
          [] restriction = "DAIRY_FREE" -> words \cap dairy_keywords = {}
          [] restriction = "KETO" -> food.carbs_g < 5
          [] restriction = "LOW_CARB" -> food.carbs_g < 15
          [] OTHER -> TRUE

\* UserProfile.is_food_allowed
is_food_allowed(prefs, food) ==
    /\ \A allergy \in prefs.allergies :
           ~(allergy \in food.allergens \/ allergy \in WordsIn(food.name))
    /\ \A dislike \in prefs.dislikes : dislike \notin WordsIn(food.name)
    /\ \A restriction \in prefs.dietary_restrictions :
           _check_dietary_restriction(food, restriction)

AllowedFoods(prefs, foods) ==
    SelectSeq(foods, LAMBDA food : is_food_allowed(prefs, food))


\* MealSatisfactionPredictor.train on one profile's meal history: nothing
\* happens without a rated meal; otherwise the forest is fitted to the
\* ratings.  The histories of the model carry one rating, and a forest
\* fitted to equal targets predicts that target.
train(predictor_arg, meal_history) ==
    LET rated == SelectSeq(meal_history,
                           LAMBDA m : m.satisfaction_rating # None)
    IN  IF rated = <<>> THEN predictor_arg
        ELSE [trained |-> TRUE, rating |-> rated[1].satisfaction_rating]

\* MealSatisfactionPredictor.predict_satisfaction: the constant 3.0 of an
\* untrained predictor, else max(1.0, min(5.0, prediction)); in
\* ten-thousandths
predict_satisfaction(predictor_arg, food) ==
    IF ~predictor_arg.trained THEN 3 * 10000
    ELSE Max2(10000, Min2(5 * 10000, predictor_arg.rating * 10000))

\* min((protein * 4 + fiber * 2) / max(calories, 1), 2.0)
_calculate_nutrition_density(food) ==
    LET calories == Max2(food.calories_per_100g, 1)
        density == food.protein_g * 4 + food.fiber_g * 2
    IN  IF density >= 2 * calories THEN 2 * 10000
        ELSE ExactDiv(density * 10000, calories)

\* 1.0 / max(cost_per_100g, 0.1), the cost being in tenths
CostEfficiency(food) == ExactDiv(100000, Max2(food.cost_per_100g, 1))

_calculate_meal_type_fit(food, meal_type) ==
    LET words == WordsIn(food.name)
        category == food.category
    IN  CASE meal_type = "breakfast" ->
                 IF words \cap {"oat", "egg", "yogurt", "milk"} # {}
                 THEN 10000
                 ELSE IF category \in {"dairy", "fruit"} THEN 8000 ELSE 5000
          [] meal_type = "lunch" ->
                 IF category \in {"protein", "carbohydrate", "vegetable"}
                 THEN 10000 ELSE 7000
          [] meal_type = "dinner" ->
                 IF category \in {"protein", "vegetable"} THEN 10000
                 ELSE IF category = "carbohydrate" THEN 8000 ELSE 6000
          [] OTHER -> 5000

\* satisfaction * 0.4 + nutrition_density * 0.3 + cost_efficiency * 0.2 +
\* meal_fit * 0.1, times ten
CombinedScore(predictor_arg, food, meal_type) ==
    predict_satisfaction(predictor_arg, food) * 4 + _calculate_nutrition_density(food) * 3
    + CostEfficiency(food) * 2 + _calculate_meal_type_fit(food, meal_type)

\* food_scores.sort(key=lambda x: x['score'], reverse=True): a stable sort,
\* so entries of equal score keep their order
RECURSIVE InsertByScore(_, _)
InsertByScore(entry, s) ==
    IF s = <<>> THEN <<entry>>
    ELSE IF Head(s).score > entry.score
         THEN <<Head(s)>> \o InsertByScore(entry, Tail(s))
         ELSE <<entry>> \o s

RECURSIVE SortByScore(_)
SortByScore(food_scores) ==
    IF food_scores = <<>> THEN <<>>
    ELSE InsertByScore(Head(food_scores), SortByScore(Tail(food_scores)))

\* food_scores of one slot
FoodScores(predictor_arg, foods, meal_type) ==
    [i \in 1..Len(foods) |->
        [food |-> foods[i],
         score |-> CombinedScore(predictor_arg, foods[i], meal_type)]]

\* mutant of SelectedFood: of the foods with the best score the last one
SelectedFoodLast(predictor_arg, foods, meal_type) ==
    LET sorted == SortByScore(FoodScores(predictor_arg, foods, meal_type))
        best == CHOOSE i \in 1..Len(sorted) :
                    /\ sorted[i].score = sorted[1].score
                    /\ \A j \in (i + 1)..Len(sorted) :
                           sorted[j].score < sorted[1].score
    IN  sorted[best].food

\* selected_food = food_scores[0]['food'] after the sort
SelectedFood(predictor_arg, foods, meal_type) ==
    SortByScore(FoodScores(predictor_arg, foods, meal_type))[1].food

\* mutant of CalorieDistribution: a slot without a share of its own gets
\* the share of breakfast
CalorieDistributionQuarter(meal_type) ==
    CASE meal_type = "breakfast" -> 25
      [] meal_type = "lunch" -> 40
      [] meal_type = "dinner" -> 35
      [] OTHER -> 25

\* Config.MEAL_CALORIE_DISTRIBUTION.get(meal_type, 0.33), in hundredths
CalorieDistribution(meal_type) ==
    CASE meal_type = "breakfast" -> 25
      [] meal_type = "lunch" -> 40
      [] meal_type = "dinner" -> 35
      [] OTHER -> 33

\* meal_target_calories = total_target_calories * share of the slot
MealTargetCalories(total_target_calories, meal_type) ==
    ExactDiv(total_target_calories * CalorieDistribution(meal_type), 100)

\* mutant of PortionSize: the portion is not capped at 400 g
PortionSizeUncapped(food, meal_target_calories) ==
    ExactDiv(meal_target_calories * 100, Max2(food.calories_per_100g, 1))

\* min(meal_target_calories / max(calories_per_100g, 1) * 100, 400), grams
PortionSize(food, meal_target_calories) ==
    LET calories == Max2(food.calories_per_100g, 1)
    IN  IF meal_target_calories * 100 >= 400 * calories THEN 400
        ELSE ExactDiv(meal_target_calories * 100, calories)

\* one iteration of "for meal_type in meal_types": the meal of the slot
OptimizedMeal(predictor_arg, foods, total_target_calories, meal_type) ==
    LET meal_target_calories ==
            MealTargetCalories(total_target_calories, meal_type)
        selected_food == SelectedFood(predictor_arg, foods, meal_type)
        portion_size == PortionSize(selected_food, meal_target_calories)
    IN  [meal_type |-> meal_type,
         items |-> <<selected_food.name>>,
         calories |-> selected_food.calories_per_100g * portion_size,
         protein |-> selected_food.protein_g * portion_size,
         carbs |-> selected_food.carbs_g * portion_size,
         fat |-> selected_food.fat_g * portion_size,
         cost |-> selected_food.cost_per_100g * portion_size]

DefaultMealTypes == <<"breakfast", "lunch", "dinner">>

SumField(ms, f) == SumSeq([i \in 1..Len(ms) |-> ms[i][f]])

WithoutCost(meal) == [k \in DOMAIN meal \ {"cost"} |-> meal[k]]

\* mutant of optimize_meal_plan: the empty pool is not looked for
optimize_meal_plan_unguarded(predictor_arg, prefs, available_foods, target_calories, meal_types) ==
    LET allowed_foods == AllowedFoods(prefs, available_foods)
    IN  [success |-> TRUE, raised |-> allowed_foods = <<>>,
         meals |-> <<>>]

\* MealOptimizer.optimize_meal_plan
optimize_meal_plan(predictor_arg, prefs, available_foods, target_calories, meal_types) ==
    LET allowed_foods == AllowedFoods(prefs, available_foods)
        optimized_meals ==
            [i \in 1..Len(meal_types) |->
                OptimizedMeal(predictor_arg, allowed_foods, target_calories,
                              meal_types[i])]
    IN  IF allowed_foods = <<>>
        THEN [success |-> FALSE, raised |-> FALSE,
              error |-> "No allowed foods available"]
        ELSE [success |-> TRUE, raised |-> FALSE,
              meals |-> [i \in 1..Len(meal_types) |->
                            WithoutCost(optimized_meals[i])],
              total_nutrition |->
                  [calories |-> SumField(optimized_meals, "calories"),
                   protein |-> SumField(optimized_meals, "protein"),
                   carbs |-> SumField(optimized_meals, "carbs"),
                   fat |-> SumField(optimized_meals, "fat")],
              total_cost |-> SumField(optimized_meals, "cost")]

\* Config.DEFAULT_DAILY_BUDGET, in tenths
DEFAULT_DAILY_BUDGET == 150

\* MealPlanGenerator._calculate_preference_score for a profile without
\* preferred or avoided foods, cuisine preferences or a budget of its own:
\* 1.0, and 0.1 more for a cost of at most a tenth of the budget; in tenths
_calculate_preference_score(food) ==
    IF food.cost_per_100g * 10 <= DEFAULT_DAILY_BUDGET THEN 11 ELSE 10

\* allowed_foods.sort(key=preference_score, reverse=True), a stable sort
RECURSIVE InsertByPreference(_, _)
InsertByPreference(food, s) ==
    IF s = <<>> THEN <<food>>
    ELSE IF Head(s).preference_score > food.preference_score
         THEN <<Head(s)>> \o InsertByPreference(food, Tail(s))
         ELSE <<food>> \o s

RECURSIVE SortByPreference(_)
SortByPreference(foods) ==
    IF foods = <<>> THEN <<>>
    ELSE InsertByPreference(Head(foods), SortByPreference(Tail(foods)))

\* MealPlanGenerator._get_available_foods without food_searches: the
\* allowed local foods, each with its preference score, best first
_get_available_foods(prefs, local_foods) ==
    LET allowed_foods == AllowedFoods(prefs, local_foods)
        scored == [i \in 1..Len(allowed_foods) |->
                      allowed_foods[i] @@
                      ("preference_score" :>
                           _calculate_preference_score(allowed_foods[i]))]
    IN  SortByPreference(scored)

\* UserProfile.get_macro_targets: "from .config import Config" is a relative
\* import in a module that is loaded without a package, so the call raises
get_macro_targets(p) ==
    [raised |-> TRUE, exception |-> "ImportError",
     message |-> "attempted relative import with no known parent package"]

\* MealPlanGenerator._calculate_calorie_requirements: calculate_tdee returns,
\* then the exception of get_macro_targets passes through.  'calories' is
\* the maintenance value of calculate_calorie_needs_by_goal(profile,
\* "maintain"), a call that is not handed the biometric data
_calculate_calorie_requirements(p, biometric_data) ==
    LET tdee_data == calculate_tdee_from(p, biometric_data, TRUE)
        macro_targets == get_macro_targets(p)
    IN  IF macro_targets.raised THEN macro_targets
        ELSE [raised |-> FALSE,
              calories |-> calculate_calorie_needs_by_goal(p, 2).maintenance,
              tdee_data |-> tdee_data]

\* the failure record of generate_meal_plan
FailedPlan(error) ==
    [success |-> FALSE, error |-> error, meals |-> <<>>,
     total_calories |-> 0,
     total_macros |-> [protein |-> 0, carbs |-> 0, fat |-> 0],
     shopping_list |-> <<>>, adaptations |-> "",
     personalization_notes |-> ""]

\* max(biometric_data, key=lambda x: x.timestamp): the first of the latest
RECURSIVE LatestBio(_)
LatestBio(biometric_data) ==
    IF Len(biometric_data) = 1 THEN biometric_data[1]
    ELSE LET rest == LatestBio(Tail(biometric_data))
         IN  IF rest.timestamp > biometric_data[1].timestamp THEN rest
             ELSE biometric_data[1]

\* "x.<field> and x.<field> <op> threshold": None and 0 are false
Truthy(v) == v # None /\ v # 0

\* the quantities of the adapted meals are thousandths of those of the
\* optimizer's meals, so that 0.8, 0.85 and 1.1 multiply exactly
AdaptScale == 10 * 100

Energy(meal) == meal.protein * 4 + meal.carbs * 4 + meal.fat * 9

\* MealPlanGenerator._apply_biometric_adaptations: <<meals, text>>
_apply_biometric_adaptations(plan_meals, biometric_data) ==
    LET latest_bio == LatestBio(biometric_data)
        high_glucose == /\ Truthy(latest_bio.glucose_mg_dl)
                        /\ latest_bio.glucose_mg_dl > HIGH_GLUCOSE_THRESHOLD
        low_activity == /\ Truthy(latest_bio.steps)
                        /\ latest_bio.steps < LOW_ACTIVITY_THRESHOLD
        poor_sleep == /\ Truthy(latest_bio.sleep_hours)
                      /\ latest_bio.sleep_hours < POOR_SLEEP_THRESHOLD
        fine(m) == [m EXCEPT !.calories = @ * AdaptScale,
                             !.protein = @ * AdaptScale,
                             !.carbs = @ * AdaptScale,
                             !.fat = @ * AdaptScale]
        glucose(m) ==
            IF ~high_glucose THEN m
            ELSE LET less == [m EXCEPT !.carbs = ExactDiv(@ * 4, 5)]
                 IN  [less EXCEPT !.calories = Energy(less)]
        activity(m) ==
            IF ~low_activity THEN m
            ELSE [m EXCEPT !.calories = ExactDiv(@ * 17, 20),
                           !.protein = ExactDiv(@ * 17, 20),
                           !.carbs = ExactDiv(@ * 17, 20),
                           !.fat = ExactDiv(@ * 17, 20)]
        sleep(m) ==
            IF ~poor_sleep THEN m
            ELSE LET more == [m EXCEPT !.protein = ExactDiv(@ * 11, 10)]
                 IN  [more EXCEPT !.calories = Energy(more)]
        adaptations ==
            (IF high_glucose THEN <<"Reduced carbohydrate portions due to elevated glucose">> ELSE <<>>)
            \o (IF low_activity THEN <<"Reduced portion sizes due to low activity level">> ELSE <<>>)
            \o (IF poor_sleep THEN <<"Increased protein portions to support recovery from poor sleep">> ELSE <<>>)
    IN  IF biometric_data = <<>>
        THEN <<[i \in 1..Len(plan_meals) |-> fine(plan_meals[i])], <<>>>>
        ELSE <<[i \in 1..Len(plan_meals) |->
                   sleep(activity(glucose(fine(plan_meals[i]))))],
               adaptations>>

\* mutant of generate_meal_plan_predictor: the predictor is trained first,
\* before the requirements are calculated
generate_meal_plan_predictor_first(predictor_arg, p, prefs, meal_history_arg, local_foods, biometric_data) ==
    IF meal_history_arg = <<>> THEN predictor_arg
    ELSE train(predictor_arg, meal_history_arg)

\* The satisfaction predictor that generate_meal_plan leaves on the
\* generator and on its optimizer: _train_satisfaction_predictor is reached
\* after _calculate_calorie_requirements and the check of the foods, for a
\* profile with meal history
generate_meal_plan_predictor(predictor_arg, p, prefs, meal_history_arg, local_foods, biometric_data) ==
    IF _calculate_calorie_requirements(p, biometric_data).raised
    THEN predictor_arg
    ELSE IF _get_available_foods(prefs, local_foods) = <<>>
    THEN predictor_arg
    ELSE IF meal_history_arg = <<>> THEN predictor_arg
    ELSE train(predictor_arg, meal_history_arg)

\* the success dictionary of generate_meal_plan: the totals of the adapted
\* meals, and get_metabolic_insights, whose exception ends in the handler
PlanResult(meal_plan, adapted_plan, metabolic_insights) ==
    IF metabolic_insights.raised
    THEN FailedPlan("Meal plan generation failed: 'adaptive_multiplier'")
    ELSE [success |-> TRUE, meals |-> adapted_plan[1],
          total_calories |-> SumField(adapted_plan[1], "calories"),
          total_macros |->
              [protein |-> SumField(adapted_plan[1], "protein"),
               carbs |-> SumField(adapted_plan[1], "carbs"),
               fat |-> SumField(adapted_plan[1], "fat")],
          total_cost |-> meal_plan.total_cost,
          adaptations |-> adapted_plan[2],
          metabolic_insights |-> metabolic_insights]

\* generate_meal_plan after the optimizer has returned meal_plan
AfterOptimizer(p, biometric_data, meal_plan) ==
    IF ~meal_plan.success THEN FailedPlan(meal_plan.error)
    ELSE PlanResult(meal_plan,
                    _apply_biometric_adaptations(meal_plan.meals,
                                                 biometric_data),
                    get_metabolic_insights(p, biometric_data))

\* generate_meal_plan after _calculate_calorie_requirements and
\* _get_available_foods; trained is the predictor after the training step
AfterRequirements(trained, p, prefs, meal_types, biometric_data, calorie_needs, available_foods) ==
    IF calorie_needs.raised
    THEN FailedPlan("Meal plan generation failed: attempted relative import with no known parent package")
    ELSE IF available_foods = <<>>
    THEN FailedPlan("No suitable foods found for user preferences")
    ELSE AfterOptimizer(p, biometric_data,
             optimize_meal_plan(trained, prefs, available_foods,
                                ExactDiv(calorie_needs.calories, KScale),
                                meal_types))

\* MealPlanGenerator.generate_meal_plan(profile, preferences, biometric_data)
\* on the local foods of its nutrition database; meal_types is
\* preferences['meal_types'], meal_history_arg is profile.meal_history and
\* predictor_arg the predictor of the generator before the call.
\* adaptations is the list that the code joins with "; ".  An exception of
\* any step ends in the handler of the method.
generate_meal_plan(predictor_arg, p, prefs, meal_history_arg, local_foods, meal_types, biometric_data) ==
    AfterRequirements(
        generate_meal_plan_predictor(predictor_arg, p, prefs,
                                     meal_history_arg, local_foods,
                                     biometric_data),
        p, prefs, meal_types, biometric_data,
        _calculate_calorie_requirements(p, biometric_data),
        _get_available_foods(prefs, local_foods))

-----------------------------------------------------------------------------
(* engine.py: PersonalizedNutritionEngine.  user_data is a record that holds
   the keys the caller gave; the food database is the pool. *)

\* dict.get(key, default)
Get(d, key, default) == IF key \in DOMAIN d THEN d[key] ELSE default

\* str.upper of an activity level name
Upper(name) ==
    CASE name = "sedentary" -> "SEDENTARY"
      [] name = "lightly_active" -> "LIGHTLY_ACTIVE"
      [] name = "moderately_active" -> "MODERATELY_ACTIVE"
      [] name = "very_active" -> "VERY_ACTIVE"
      [] name = "extremely_active" -> "EXTREMELY_ACTIVE"
      [] OTHER -> name

\* UserProfile.add_meal_history: append, then keep the last 90 days
add_meal_history(meal_history, meal, today) ==
    SelectSeq(Append(meal_history, meal), LAMBDA m : m.date >= today - 90)

\* mutant of add_biometric_data: a sample exactly 30 days old is dropped
add_biometric_data_strict(biometric_data, data, now) ==
    SelectSeq(Append(biometric_data, data),
              LAMBDA b : b.timestamp > now - 30)

\* UserProfile.add_biometric_data: append, then keep the last 30 days
add_biometric_data(biometric_data, data, now) ==
    SelectSeq(Append(biometric_data, data),
              LAMBDA b : b.timestamp >= now - 30)

\* "for meal_data in meal_history": MealHistory(date=meal_data['date'], ...)
\* raises KeyError for an entry without its keys; the others are added
RECURSIVE AddMeals(_, _)
AddMeals(history, meal_history) ==
    IF meal_history = <<>> THEN [raised |-> FALSE, meal_history |-> history]
    ELSE IF "date" \notin DOMAIN Head(meal_history)
    THEN Raised("KeyError", "'date'")
    ELSE AddMeals(add_meal_history(history, Head(meal_history), Now),
                  Tail(meal_history))

\* PersonalizedNutritionEngine._create_user_profile: defaults for missing
\* keys, MODERATELY_ACTIVE for an unknown activity level, and
\* dietary_restrictions=[] whatever user_data holds
_create_user_profile(ud) ==
    LET activity_level_str == Get(ud, "activity_level", "moderately_active")
        prefs_data ==
            Get(ud, "dietary_preferences",
                [allergies |-> {}, dislikes |-> {}])
        added == AddMeals(<<>>, Get(ud, "meal_history", <<>>))
    IN  IF added.raised THEN added
        ELSE [raised |-> FALSE,
              profile |->
                  [age |-> Get(ud, "age", 30),
                   sex |-> Get(ud, "sex", "other"),
                   weight_kg |-> Get(ud, "weight_kg", 70),
                   height_cm |-> Get(ud, "height_cm", 170),
                   activity_level |->
                       IF Upper(activity_level_str) \in ActivityLevels
                       THEN Upper(activity_level_str)
                       ELSE "MODERATELY_ACTIVE"],
              dietary_preferences |->
                  [allergies |-> Get(prefs_data, "allergies", {}),
                   dislikes |-> Get(prefs_data, "dislikes", {}),
                   dietary_restrictions |-> {}],
              meal_history |-> added.meal_history]

\* PersonalizedNutritionEngine._process_biometric_data: a sample without a
\* timestamp gets datetime.now()
_process_biometric_data(biometric_data) ==
    [i \in 1..Len(biometric_data) |->
        [timestamp |-> IF Get(biometric_data[i], "timestamp", None) = None
                       THEN Now ELSE biometric_data[i].timestamp,
         steps |-> Get(biometric_data[i], "steps", None),
         heart_rate |-> Get(biometric_data[i], "heart_rate", None),
         sleep_hours |-> Get(biometric_data[i], "sleep_hours", None),
         glucose_mg_dl |-> Get(biometric_data[i], "glucose_mg_dl", None),
         weight_kg |-> Get(biometric_data[i], "weight_kg", None)]]

\* PersonalizedNutritionEngine._determine_meal_types
_determine_meal_types(count) ==
    CASE count = 1 -> <<"lunch">>
      [] count = 2 -> <<"breakfast", "dinner">>
      [] count = 3 -> <<"breakfast", "lunch", "dinner">>
      [] count = 4 -> <<"breakfast", "morning_snack", "lunch", "dinner">>
      [] count = 5 -> <<"breakfast", "morning_snack", "lunch",
                        "afternoon_snack", "dinner">>
      [] OTHER -> <<"breakfast", "lunch", "dinner">>

\* MealAdaptationEngine.adapt_meal_plan as one call: <<meals, explanations>>
RECURSIVE ApplyStrategies(_, _, _, _)
ApplyStrategies(tags, ms, made, an) ==
    IF tags = <<>> THEN <<ms, made>>
    ELSE LET out == Strategy(Head(tags), ms, an)
         IN  ApplyStrategies(Tail(tags), out[1],
                 IF out[2] # <<>> THEN Append(made, out[2]) ELSE made, an)

\* adapt_meal_plan after "analysis = self.analyzer.analyze_biometric_trends"
AdaptWith(ms, an) == ApplyStrategies(an.adaptations_needed, ms, <<>>, an)

adapt_meal_plan(ms, biometric_data) ==
    AdaptWith(ms, analyze_biometric_trends(biometric_data))

\* PersonalizedNutritionEngine._format_error_response, without the version
\* and the time of the response
_format_error_response(error_message) ==
    [success |-> FALSE, error |-> error_message, meals |-> <<>>,
     total_calories |-> 0,
     total_macros |-> [protein |-> 0, carbs |-> 0, fat |-> 0],
     shopping_list |-> <<>>, adaptations |-> "",
     personalization_notes |-> ""]

\* the success response of the engine
EngineResponse(meal_plan_result, adapted_plan) ==
    [success |-> TRUE, meals |-> adapted_plan[1],
     total_calories |-> SumField(adapted_plan[1], "calories"),
     total_macros |->
         [protein |-> SumField(adapted_plan[1], "protein"),
          carbs |-> SumField(adapted_plan[1], "carbs"),
          fat |-> SumField(adapted_plan[1], "fat")],
     adaptations |-> adapted_plan[2] \o meal_plan_result.adaptations,
     metabolic_insights |-> meal_plan_result.metabolic_insights]

\* the engine after the generator has returned meal_plan_result
AfterGenerator(meal_plan_result, biometrics) ==
    IF ~meal_plan_result.success
    THEN _format_error_response(meal_plan_result.error)
    ELSE EngineResponse(meal_plan_result,
                        adapt_meal_plan(meal_plan_result.meals, biometrics))

\* the engine after _create_user_profile and _process_biometric_data
AfterProfile(predictor_arg, created, biometrics, meal_types, local_foods) ==
    AfterGenerator(
        generate_meal_plan(predictor_arg, created.profile,
                           created.dietary_preferences, created.meal_history,
                           local_foods, meal_types, biometrics),
        biometrics)

\* the body of PersonalizedNutritionEngine.generate_meal_plan; an exception
\* of _create_user_profile leaves it
EngineBody(predictor_arg, created, biometrics, meal_types, local_foods) ==
    IF created.raised THEN created
    ELSE AfterProfile(predictor_arg, created, biometrics, meal_types,
                      local_foods)

\* mutant of PersonalizedNutritionEngine_generate_meal_plan: no try / except
\* around the body
PersonalizedNutritionEngine_generate_meal_plan_bare(predictor_arg, ud, biometric_data, count, local_foods) ==
    EngineBody(predictor_arg, _create_user_profile(ud),
               _process_biometric_data(biometric_data),
               _determine_meal_types(count), local_foods)

\* PersonalizedNutritionEngine.generate_meal_plan(user_data, None,
\* biometric_data, meal_count): the success response holds the adapted
\* meals, their sums and the adaptation notes (the rounding to one decimal,
\* the shopping list and the cost are left out)
\* "except Exception as e: return self._format_error_response(...)"
Handled(outcome) ==
    IF "raised" \in DOMAIN outcome /\ outcome.raised
    THEN _format_error_response("Engine error: " \o outcome.message)
    ELSE outcome

PersonalizedNutritionEngine_generate_meal_plan(predictor_arg, ud, biometric_data, count, local_foods) ==
    Handled(EngineBody(predictor_arg, _create_user_profile(ud),
                       _process_biometric_data(biometric_data),
                       _determine_meal_types(count), local_foods))

\* the satisfaction predictor that the engine call leaves on the generator
PersonalizedNutritionEngine_predictor(predictor_arg, ud, biometric_data, local_foods) ==
    LET created == _create_user_profile(ud)
    IN  IF created.raised THEN predictor_arg
        ELSE generate_meal_plan_predictor(predictor_arg, created.profile,
                 created.dietary_preferences, created.meal_history,
                 local_foods, _process_biometric_data(biometric_data))

\* the body of get_nutrition_insights after _create_user_profile and
\* _process_biometric_data
InsightsBody(created, biometrics, metabolic_insights, macro_targets) ==
    IF created.raised THEN created
    ELSE IF metabolic_insights.raised THEN metabolic_insights
    ELSE IF macro_targets.raised THEN macro_targets
    ELSE [success |-> TRUE,
          user_profile |->
              [bmr |-> UserProfile_calculate_bmr(created.profile),
               activity_level |-> created.profile.activity_level],
          calorie_requirements |->
              calculate_calorie_needs_by_goal(created.profile, 2),
          macro_targets |-> macro_targets,
          metabolic_insights |-> metabolic_insights,
          biometric_analysis |->
              IF biometrics = <<>> THEN <<>>
              ELSE analyze_biometric_trends(biometrics)]

\* get_nutrition_insights without its handler
InsightsCall(created, biometrics) ==
    InsightsBody(created, biometrics,
                 get_metabolic_insights(created.profile, biometrics),
                 get_macro_targets(created.profile))

\* "except Exception as e: return {'success': False, 'error': ...}"
HandledAnalysis(outcome) ==
    IF "raised" \in DOMAIN outcome /\ outcome.raised
    THEN [success |-> FALSE, error |-> "Analysis error: " \o outcome.message]
    ELSE outcome

\* mutant of get_nutrition_insights: no try / except around the body
get_nutrition_insights_bare(ud, biometric_data) ==
    LET created == _create_user_profile(ud)
    IN  IF created.raised THEN created
        ELSE get_metabolic_insights(created.profile,
                                    _process_biometric_data(biometric_data))

\* PersonalizedNutritionEngine.get_nutrition_insights(user_data,
\* biometric_data): get_metabolic_insights, calculate_calorie_needs_by_goal
\* and profile.get_macro_targets() are called in this order
get_nutrition_insights(ud, biometric_data) ==
    HandledAnalysis(InsightsCall(_create_user_profile(ud),
                                 _process_biometric_data(biometric_data)))

\* a rated meal of yesterday
RatedMeal ==
    [date |-> Now - 1, meal_type |-> "lunch", foods |-> <<"chicken breast">>,
     calories |-> 500, protein_g |-> 40, carbs_g |-> 30, fat_g |-> 20,
     satisfaction_rating |-> 5]

\* The user_data of the engine calls: a vegetarian user with every field, a
\* user with a name only, a user with a rated meal history, and a user
\* whose meal history entry lacks its keys
UserDataDom ==
    {[name |-> "Vegetarian User", age |-> 28, sex |-> "female",
      weight_kg |-> 60, height_cm |-> 165,
      activity_level |-> "lightly_active",
      dietary_preferences |->
          [allergies |-> {}, dislikes |-> {},
           dietary_restrictions |-> {"vegetarian"}]],
     [name |-> "Test User"],
     [name |-> "Rated User", age |-> 32, sex |-> "male", weight_kg |-> 75,
      height_cm |-> 180, activity_level |-> "moderately_active",
      meal_history |-> <<RatedMeal>>],
     [name |-> "Broken History", meal_history |-> <<[meal_type |-> "lunch"]>>]}

\* meal_count: the five layouts and a value on each side of them
MealCounts == 0..6

\* the biometric data a plan is generated with: none, a good day, a bad day
PlanHistoryDom ==
    {<<>>, <<Full(TsRecent, 95, 12000, 8, 65, 70)>>,
     <<Full(TsCutoff, 150, 2000, 5, 110, 73)>>}

InitPlan ==
    /\ pool \in SeqsUpTo(FoodDom, MaxFoods)
    /\ dietary_preferences \in PreferenceDom
    /\ target \in TargetVals
    /\ \/ /\ user_data = [name |-> "Test User"]
          /\ \/ /\ recent_biometrics \in PlanHistoryDom
                /\ meal_count = 3
             \/ /\ recent_biometrics = <<>>
                /\ meal_count \in MealCounts
       \/ /\ dietary_preferences = [allergies |-> {}, dislikes |-> {},
                                    dietary_restrictions |-> {}]
          /\ target = 2000
          /\ user_data \in UserDataDom
          /\ recent_biometrics \in PlanHistoryDom
          /\ meal_count \in MealCounts
    /\ predictor = FreshPredictor
    /\ rated_before = FALSE
    /\ ppc = "start"
    /\ presult = <<>>
    /\ profile = ScenarioProfile
    /\ rate = 0
    /\ mpc = "idle"
    /\ mresult = <<>>
    /\ adaptive = TRUE
    /\ AdaptIdle
    /\ DemoIdle
    /\ HistoryIdle
    /\ PrefIdle

\* the meal history of the profile that the generator is called on
ProfileMealHistory ==
    LET created == _create_user_profile(user_data)
    IN  IF created.raised THEN <<>> ELSE created.meal_history

\* optimize_meal_plan(profile, pool, {'calories': target}, meal_types) on
\* the optimizer of the generator
OptimizeMealPlan ==
    /\ ppc = "start"
    /\ presult' = optimize_meal_plan(predictor, dietary_preferences, pool,
                                     target,
                                     _determine_meal_types(meal_count))
    /\ ppc' = "optimize_meal_plan"
    /\ UNCHANGED <<pool, dietary_preferences, target, user_data, meal_count, predictor, rated_before, adaptVars, metabVars, demoVars, historyVars, prefVars>>

\* generate_meal_plan(profile, {'meal_types': ...}, biometric_data) on the
\* generator
GenerateMealPlan ==
    /\ ppc = "start"
    /\ presult' = generate_meal_plan(predictor, profile, dietary_preferences,
                                     ProfileMealHistory, pool,
                                     _determine_meal_types(meal_count),
                                     recent_biometrics)
    /\ predictor' = generate_meal_plan_predictor(predictor, profile,
                        dietary_preferences, ProfileMealHistory, pool,
                        recent_biometrics)
    /\ ppc' = "generate_meal_plan"
    /\ UNCHANGED <<pool, dietary_preferences, target, user_data, meal_count, rated_before, adaptVars, metabVars, demoVars, historyVars, prefVars>>

\* engine.generate_meal_plan(user_data, biometric_data=..., meal_count=...)
EngineGenerateMealPlan ==
    /\ ppc = "start"
    /\ presult' = PersonalizedNutritionEngine_generate_meal_plan(
                      predictor, user_data, recent_biometrics, meal_count,
                      pool)
    /\ predictor' = PersonalizedNutritionEngine_predictor(
                        predictor, user_data, recent_biometrics, pool)
    /\ ppc' = "engine.generate_meal_plan"
    /\ UNCHANGED <<pool, dietary_preferences, target, user_data, meal_count, rated_before, adaptVars, metabVars, demoVars, historyVars, prefVars>>

\* engine.get_nutrition_insights(user_data, biometric_data)
EngineGetNutritionInsights ==
    /\ ppc = "start"
    /\ presult' = get_nutrition_insights(user_data, recent_biometrics)
    /\ ppc' = "engine.get_nutrition_insights"
    /\ UNCHANGED <<pool, dietary_preferences, target, user_data, meal_count, predictor, rated_before, adaptVars, metabVars, demoVars, historyVars, prefVars>>

NextPlan ==
    \/ OptimizeMealPlan
    \/ GenerateMealPlan
    \/ EngineGenerateMealPlan
    \/ EngineGetNutritionInsights

SpecPlan == InitPlan /\ [][NextPlan]_vars

\* The optimizer alone, on pools that hold two foods of equal score
\* (chicken and turkey) in both orders.
MaxPool == 2        \* largest pool of the optimizer runs

OptimizerFoodDom ==
    FoodDom \cup {Food("turkey breast", "protein", 200, 32, 4, 6, 0, 20, {})}

InitOptimizer ==
    /\ pool \in SeqsUpTo(OptimizerFoodDom, MaxPool)
    /\ dietary_preferences \in
           [allergies : {{}}, dislikes : SUBSET {"broccoli"},
            dietary_restrictions : {{}}]
    /\ target \in TargetVals
    /\ user_data = [name |-> "Test User"]
    /\ recent_biometrics = <<>>
    /\ meal_count \in MealCounts
    /\ predictor = FreshPredictor
    /\ rated_before = FALSE
    /\ ppc = "start"
    /\ presult = <<>>
    /\ profile = ScenarioProfile
    /\ rate = 0
    /\ mpc = "idle"
    /\ mresult = <<>>
    /\ adaptive = TRUE
    /\ AdaptIdle
    /\ DemoIdle
    /\ HistoryIdle
    /\ PrefIdle

SpecOptimizer == InitOptimizer /\ [][OptimizeMealPlan]_vars

\* The engine on one sample of yesterday that measures glucose only, above
\* the threshold of 140 and not above 160.
GlucoseOnlyDom ==
    {<<[Blank(TsRecent) EXCEPT !.glucose_mg_dl = g]>> : g \in {141, 150, 160}}

InitEngine ==
    /\ pool \in SeqsUpTo(FoodDom, MaxFoods)
    /\ dietary_preferences =
           [allergies |-> {}, dislikes |-> {}, dietary_restrictions |-> {}]
    /\ target = 2000
    /\ user_data \in {ud \in UserDataDom :
                         ud.name \in {"Test User", "Vegetarian User"}}
    /\ recent_biometrics \in GlucoseOnlyDom
    /\ meal_count \in 1..5
    /\ predictor = FreshPredictor
    /\ rated_before = FALSE
    /\ ppc = "start"
    /\ presult = <<>>
    /\ profile = ScenarioProfile
    /\ rate = 0
    /\ mpc = "idle"
    /\ mresult = <<>>
    /\ adaptive = TRUE
    /\ AdaptIdle
    /\ DemoIdle
    /\ HistoryIdle
    /\ PrefIdle

SpecEngine == InitEngine /\ [][EngineGenerateMealPlan]_vars

\* Sequences of calls on one engine instance (one generator, one optimizer,
\* one predictor): after a call has returned, the next call is made with
\* other arguments.
CallPools ==
    {<<Food("chicken breast", "protein", 200, 32, 0, 8, 0, 20, {})>>,
     <<Food("broccoli", "vegetable", 40, 4, 8, 0, 4, 10, {}),
       Food("rolled oats", "carbohydrate", 400, 16, 64, 8, 8, 5, {"gluten"})>>}

CallMealCounts == {1, 3}

InitCalls ==
    /\ InitPlan
    /\ pool \in CallPools
    /\ dietary_preferences = [allergies |-> {}, dislikes |-> {},
                              dietary_restrictions |-> {}]
    /\ target = 2000
    /\ meal_count \in CallMealCounts

HasRatedMeal(meal_history) ==
    \E i \in 1..Len(meal_history) : meal_history[i].satisfaction_rating # None

NextCall ==
    /\ ppc # "start"
    /\ pool' \in CallPools
    /\ user_data' \in UserDataDom
    /\ recent_biometrics' \in PlanHistoryDom
    /\ meal_count' \in CallMealCounts
    /\ rated_before' = (rated_before \/
           (ppc \in {"generate_meal_plan", "engine.generate_meal_plan"}
            /\ HasRatedMeal(ProfileMealHistory)))
    /\ ppc' = "start"
    /\ presult' = <<>>
    /\ UNCHANGED <<dietary_preferences, target, predictor, adaptVars, profile, rate, mpc, mresult, adaptive, demoVars, historyVars, prefVars>>

NextCalls ==
    \/ NextPlan
    \/ NextCall

SpecCalls == InitCalls /\ [][NextCalls]_vars

-----------------------------------------------------------------------------
(* models.py: the retention windows of one UserProfile.  Time is counted in
   days; an entry carries the number n of the call that added it. *)

MaxCalls == 3
MaxClock == 125

\* how old the added entries are: new, on the edge of the window, one day
\* beyond it
BiometricAges == {0, 30, 31}
MealAges == {0, 90, 91}

\* how far the clock moves between two calls: to the edge of a window and
\* one day beyond it
ClockSteps == {30, 31, 90, 91}

InitHistory ==
    /\ profile_biometric_data = <<>>
    /\ profile_meal_history = <<>>
    /\ clock = 0
    /\ calls = 0
    /\ hpc = "ready"
    /\ last_call = <<>>
    /\ AdaptIdle
    /\ MetabIdle
    /\ PlanIdle
    /\ DemoIdle
    /\ PrefIdle

\* profile.add_biometric_data(BiometricData(timestamp=...))
AddBiometricData ==
    /\ hpc # "idle"
    /\ calls < MaxCalls
    /\ \E age \in BiometricAges :
          LET data == [timestamp |-> clock - age, n |-> calls + 1]
          IN  /\ profile_biometric_data' =
                     add_biometric_data(profile_biometric_data, data, clock)
              /\ last_call' = [entry |-> data,
                               biometric_data |-> profile_biometric_data,
                               meal_history |-> profile_meal_history]
    /\ calls' = calls + 1
    /\ hpc' = "add_biometric_data"
    /\ UNCHANGED <<profile_meal_history, clock, adaptVars, metabVars, planVars, demoVars, prefVars>>

\* profile.add_meal_history(MealHistory(date=...))
AddMealHistory ==
    /\ hpc # "idle"
    /\ calls < MaxCalls
    /\ \E age \in MealAges :
          LET meal == [date |-> clock - age, n |-> calls + 1]
          IN  /\ profile_meal_history' =
                     add_meal_history(profile_meal_history, meal, clock)
              /\ last_call' = [entry |-> meal,
                               biometric_data |-> profile_biometric_data,
                               meal_history |-> profile_meal_history]
    /\ calls' = calls + 1
    /\ hpc' = "add_meal_history"
    /\ UNCHANGED <<profile_biometric_data, clock, adaptVars, metabVars, planVars, demoVars, prefVars>>

\* time passes between two calls
Tick ==
    /\ hpc # "idle"
    /\ \E step \in ClockSteps :
          /\ clock + step <= MaxClock
          /\ clock' = clock + step
    /\ hpc' = "ready"
    /\ UNCHANGED <<profile_biometric_data, profile_meal_history, calls, last_call, adaptVars, metabVars, planVars, demoVars, prefVars>>

NextHistory ==
    \/ AddBiometricData
    \/ AddMealHistory
    \/ Tick

SpecHistory == InitHistory /\ [][NextHistory]_vars

\* ---------------------------------------------------------------------
\* models.py: UserProfile.update_food_preferences on one profile
\* ---------------------------------------------------------------------
MaxUpdates == 3     \* calls of update_food_preferences in one behaviour
PreferenceFoods == {"oats", "tofu", "salmon"}

\* x in list
ListHas(list, x) == \E i \in 1..Len(list) : list[i] = x

\* list.remove(x): drops the first occurrence of x
ListRemove(list, x) == LET first == CHOOSE i \in 1..Len(list) : list[i] = x /\ \A j \in 1..(i - 1) : list[j] # x IN [k \in 1..(Len(list) - 1) |-> IF k < first THEN list[k] ELSE list[k + 1]]

update_food_preferences_keep(preferred, avoided, food_name, liked) ==
    IF liked
    THEN [preferred_foods |-> IF ~ListHas(preferred, food_name) THEN Append(preferred, food_name) ELSE preferred,
          avoided_foods |-> avoided]
    ELSE [preferred_foods |-> preferred,
          avoided_foods |-> IF ~ListHas(avoided, food_name) THEN Append(avoided, food_name) ELSE avoided]

update_food_preferences(preferred, avoided, food_name, liked) ==
    IF liked
    THEN [preferred_foods |-> IF ~ListHas(preferred, food_name) THEN Append(preferred, food_name) ELSE preferred,
          avoided_foods |-> IF ListHas(avoided, food_name) THEN ListRemove(avoided, food_name) ELSE avoided]
    ELSE [preferred_foods |-> IF ListHas(preferred, food_name) THEN ListRemove(preferred, food_name) ELSE preferred,
          avoided_foods |-> IF ~ListHas(avoided, food_name) THEN Append(avoided, food_name) ELSE avoided]

DupFree(list) == \A i, j \in 1..Len(list) : list[i] = list[j] => i = j
Disjoint(a, b) == \A i \in 1..Len(a) : ~ListHas(b, a[i])

\* a profile whose two lists are duplicate-free and share no food
InitPrefs ==
    /\ profile_preferred_foods \in {l \in SeqsUpTo(PreferenceFoods, Cardinality(PreferenceFoods)) : DupFree(l)}
    /\ profile_avoided_foods \in {l \in SeqsUpTo(PreferenceFoods, Cardinality(PreferenceFoods)) : DupFree(l) /\ Disjoint(profile_preferred_foods, l)}
    /\ updates = 0
    /\ fpc = "ready"
    /\ last_update = <<>>
    /\ AdaptIdle
    /\ MetabIdle
    /\ PlanIdle
    /\ DemoIdle
    /\ HistoryIdle

\* profile.update_food_preferences(food_name, liked)
UpdateFoodPreferences ==
    /\ fpc # "idle"
    /\ updates < MaxUpdates
    /\ \E food_name \in PreferenceFoods, liked \in BOOLEAN :
          LET after == update_food_preferences(profile_preferred_foods, profile_avoided_foods, food_name, liked)
          IN  /\ profile_preferred_foods' = after.preferred_foods
              /\ profile_avoided_foods' = after.avoided_foods
              /\ last_update' = [food_name |-> food_name, liked |-> liked,
                                 preferred_foods |-> profile_preferred_foods,
                                 avoided_foods |-> profile_avoided_foods]
    /\ updates' = updates + 1
    /\ fpc' = "update_food_preferences"
    /\ UNCHANGED <<adaptVars, metabVars, planVars, demoVars, historyVars>>

SpecPrefs == InitPrefs /\ [][UpdateFoodPreferences]_vars

-----------------------------------------------------------------------------
(* standalone_demo.py: generate_meal_plan on the built-in food database *)

\* one entry of get_food_database(); cost in cents
DemoFood(calories, protein, carbs, fat, cost, allergens, dietary_type) ==
    [calories |-> calories, protein |-> protein, carbs |-> carbs, fat |-> fat,
     cost |-> cost, allergens |-> allergens, dietary_type |-> dietary_type]

\* the keys of get_food_database(), in the order of the dictionary
FoodNames ==
    <<"oatmeal", "banana", "greek_yogurt", "chicken_breast", "quinoa",
      "broccoli", "salmon", "sweet_potato", "spinach", "brown_rice",
      "turkey_breast", "eggs", "avocado", "almonds", "tofu", "lentils",
      "cottage_cheese", "beans", "whole_wheat_bread", "peanut_butter",
      "milk", "cheese", "beef", "pork", "tuna", "chickpeas", "mushrooms">>

get_food_database(name) ==
    CASE name = "oatmeal" ->
             DemoFood(150, 5, 27, 3, 35, {"gluten"}, "vegan")
      [] name = "banana" ->
             DemoFood(90, 1, 23, 0, 40, {}, "vegan")
      [] name = "greek_yogurt" ->
             DemoFood(130, 15, 9, 0, 150, {"dairy"}, "vegetarian")
      [] name = "chicken_breast" ->
             DemoFood(165, 31, 0, 4, 250, {"chicken"}, "non_vegetarian")
      [] name = "quinoa" ->
             DemoFood(110, 4, 20, 2, 80, {}, "vegan")
      [] name = "broccoli" ->
             DemoFood(25, 3, 5, 0, 80, {}, "vegan")
      [] name = "salmon" ->
             DemoFood(145, 22, 0, 6, 400, {"fish"}, "non_vegetarian")
      [] name = "sweet_potato" ->
             DemoFood(90, 2, 21, 0, 65, {}, "vegan")
      [] name = "spinach" ->
             DemoFood(7, 1, 1, 0, 110, {}, "vegan")
      [] name = "brown_rice" ->
             DemoFood(110, 3, 22, 1, 45, {}, "vegan")
      [] name = "turkey_breast" ->
             DemoFood(135, 25, 0, 3, 320, {}, "non_vegetarian")
      [] name = "eggs" ->
             DemoFood(70, 6, 1, 5, 25, {"eggs"}, "vegetarian")
      [] name = "avocado" ->
             DemoFood(160, 2, 9, 15, 120, {}, "vegan")
      [] name = "almonds" ->
             DemoFood(160, 6, 6, 14, 200, {"nuts"}, "vegan")
      [] name = "tofu" ->
             DemoFood(80, 8, 2, 4, 180, {"soy"}, "vegan")
      [] name = "lentils" ->
             DemoFood(115, 9, 20, 0, 60, {}, "vegan")
      [] name = "cottage_cheese" ->
             DemoFood(100, 12, 5, 2, 130, {"dairy"}, "vegetarian")
      [] name = "beans" ->
             DemoFood(125, 8, 23, 1, 50, {}, "vegan")
      [] name = "whole_wheat_bread" ->
             DemoFood(80, 4, 14, 1, 30, {"gluten"}, "vegan")
      [] name = "peanut_butter" ->
             DemoFood(190, 8, 8, 16, 40, {"nuts"}, "vegan")
      [] name = "milk" ->
             DemoFood(60, 3, 5, 3, 50, {"dairy"}, "vegetarian")
      [] name = "cheese" ->
             DemoFood(113, 7, 1, 9, 200, {"dairy"}, "vegetarian")
      [] name = "beef" ->
             DemoFood(250, 26, 0, 15, 500, {}, "non_vegetarian")
      [] name = "pork" ->
             DemoFood(242, 27, 0, 14, 450, {}, "non_vegetarian")
      [] name = "tuna" ->
             DemoFood(144, 30, 0, 1, 350, {"fish"}, "non_vegetarian")
      [] name = "chickpeas" ->
             DemoFood(164, 8, 27, 3, 70, {}, "vegan")
      [] name = "mushrooms" ->
             DemoFood(22, 3, 3, 0, 150, {}, "vegan")

\* food.replace('_', ' ').title()
Title(name) ==
    CASE name = "oatmeal" -> "Oatmeal"
      [] name = "banana" -> "Banana"
      [] name = "greek_yogurt" -> "Greek Yogurt"
      [] name = "chicken_breast" -> "Chicken Breast"
      [] name = "quinoa" -> "Quinoa"
      [] name = "broccoli" -> "Broccoli"
      [] name = "salmon" -> "Salmon"
      [] name = "sweet_potato" -> "Sweet Potato"
      [] name = "spinach" -> "Spinach"
      [] name = "brown_rice" -> "Brown Rice"
      [] name = "turkey_breast" -> "Turkey Breast"
      [] name = "eggs" -> "Eggs"
      [] name = "avocado" -> "Avocado"
      [] name = "almonds" -> "Almonds"
      [] name = "tofu" -> "Tofu"
      [] name = "lentils" -> "Lentils"
      [] name = "cottage_cheese" -> "Cottage Cheese"
      [] name = "beans" -> "Beans"
      [] name = "whole_wheat_bread" -> "Whole Wheat Bread"
      [] name = "peanut_butter" -> "Peanut Butter"
      [] name = "milk" -> "Milk"
      [] name = "cheese" -> "Cheese"
      [] name = "beef" -> "Beef"
      [] name = "pork" -> "Pork"
      [] name = "tuna" -> "Tuna"
      [] name = "chickpeas" -> "Chickpeas"
      [] name = "mushrooms" -> "Mushrooms"

\* food['name'].lower().replace(' ', '_')
LowerUnderscore(title) ==
    CASE title = "Oatmeal" -> "oatmeal"
      [] title = "Banana" -> "banana"
      [] title = "Greek Yogurt" -> "greek_yogurt"
      [] title = "Chicken Breast" -> "chicken_breast"
      [] title = "Quinoa" -> "quinoa"
      [] title = "Broccoli" -> "broccoli"
      [] title = "Salmon" -> "salmon"
      [] title = "Sweet Potato" -> "sweet_potato"
      [] title = "Spinach" -> "spinach"
      [] title = "Brown Rice" -> "brown_rice"
      [] title = "Turkey Breast" -> "turkey_breast"
      [] title = "Eggs" -> "eggs"
      [] title = "Avocado" -> "avocado"
      [] title = "Almonds" -> "almonds"
      [] title = "Tofu" -> "tofu"
      [] title = "Lentils" -> "lentils"
      [] title = "Cottage Cheese" -> "cottage_cheese"
      [] title = "Beans" -> "beans"
      [] title = "Whole Wheat Bread" -> "whole_wheat_bread"
      [] title = "Peanut Butter" -> "peanut_butter"
      [] title = "Milk" -> "milk"
      [] title = "Cheese" -> "cheese"
      [] title = "Beef" -> "beef"
      [] title = "Pork" -> "pork"
      [] title = "Tuna" -> "tuna"
      [] title = "Chickpeas" -> "chickpeas"
      [] title = "Mushrooms" -> "mushrooms"

\* allergen.lower() / a.lower() on the words of the model
LowerWord(word) ==
    CASE word = "Nuts" -> "nuts"
      [] word = "GLUTEN" -> "gluten"
      [] OTHER -> word

\* filter_foods_by_dietary_preferences(foods, dietary_preference, allergies):
\* the names of safe_foods, in the order of the dictionary
filter_foods_by_dietary_preferences(foods, dietary_preference_arg, allergies_arg) ==
    LET lowered == {LowerWord(a) : a \in allergies_arg}
        Safe(name) ==
            LET info == get_food_database(name)
                food_type == info.dietary_type
            IN  /\ ~\E allergen \in info.allergens : LowerWord(allergen) \in lowered
                /\ CASE dietary_preference_arg = "vegan" ->
                            food_type = "vegan"
                     [] dietary_preference_arg = "vegetarian" ->
                            food_type \in {"vegan", "vegetarian"}
                     [] OTHER -> TRUE
    IN  SelectSeq(foods, Safe)

\* meal_patterns.get(meal_type, available_foods) of create_meal
meal_patterns(meal_type, available_foods) ==
    CASE meal_type = "breakfast" ->
             <<"oatmeal", "banana", "greek_yogurt", "eggs",
               "whole_wheat_bread">>
      [] meal_type = "lunch" ->
             <<"chicken_breast", "turkey_breast", "salmon", "tofu", "quinoa",
               "brown_rice", "broccoli", "spinach">>
      [] meal_type = "dinner" ->
             <<"chicken_breast", "turkey_breast", "salmon", "tofu",
               "sweet_potato", "broccoli", "spinach", "lentils">>
      [] OTHER -> available_foods

InSeq(x, s) == \E i \in 1..Len(s) : s[i] = x

\* preferred_foods of create_meal
preferred_foods(available_foods, meal_type) ==
    LET preferred == SelectSeq(meal_patterns(meal_type, available_foods),
                               LAMBDA f : InSeq(f, available_foods))
    IN  IF preferred = <<>> THEN available_foods ELSE preferred

\* the meal that create_meal builds of selected_foods, 100 g of each
CreatedMeal(selected_foods, meal_type) ==
    LET info == [i \in 1..Len(selected_foods) |->
                     get_food_database(selected_foods[i])]
    IN  [type |-> meal_type,
         foods |-> [i \in 1..Len(selected_foods) |->
                        [name |-> Title(selected_foods[i]), portion |-> 100,
                         unit |-> "g"]],
         nutrition |-> [calories |-> SumField(info, "calories"),
                        protein |-> SumField(info, "protein"),
                        carbs |-> SumField(info, "carbs"),
                        fat |-> SumField(info, "fat")],
         cost |-> SumField(info, "cost")]

\* ['breakfast', 'lunch', 'dinner', 'snack_1', 'snack_2', 'snack_3'][:meal_count]
DemoMealTypes(count) ==
    FirstN(<<"breakfast", "lunch", "dinner", "snack_1", "snack_2", "snack_3">>, count)

\* the names of the shopping list of generate_meal_plan
ShoppingNames(ms) ==
    UNION {{LowerUnderscore(ms[i].foods[j].name) :
               j \in 1..Len(ms[i].foods)} : i \in 1..Len(ms)}

\* the allergy lists of the calls, as sets of words
DemoAllergyDom == SUBSET {"gluten", "eggs", "Nuts"}

DemoPreferenceDom == {"vegan", "vegetarian", "non_vegetarian"}

DemoMealCounts == {1, 2}

\* standalone generate_meal_plan with days = 1: its arguments are chosen
InitDemo ==
    /\ dietary_preference \in DemoPreferenceDom
    /\ allergies \in DemoAllergyDom
    /\ demo_meal_count \in DemoMealCounts
    /\ dpc = "start"
    /\ all_meals = <<>>
    /\ dresult = <<>>
    /\ AdaptIdle
    /\ MetabIdle
    /\ PlanIdle
    /\ HistoryIdle
    /\ PrefIdle

safe_foods == filter_foods_by_dietary_preferences(FoodNames, dietary_preference, allergies)

\* generate_meal_plan up to the loop over the meal types: without safe
\* foods it returns the failure
FilterFoods ==
    /\ dpc = "start"
    /\ IF safe_foods = <<>>
       THEN /\ dresult' = [success |-> FALSE,
                           error |-> "No safe foods available with your "
                                     \o dietary_preference
                                     \o " diet and allergy restrictions"]
            /\ dpc' = "returned"
       ELSE /\ dresult' = dresult
            /\ dpc' = "meals"
    /\ UNCHANGED <<dietary_preference, allergies, demo_meal_count, all_meals, adaptVars, metabVars, planVars, historyVars, prefVars>>

\* create_meal(safe_foods, calories_per_meal, meal_type) for the next meal
\* type: random.randint(2, min(4, len(preferred_foods))) raises ValueError
\* on an empty range, else random.sample picks that many preferred foods
\* (their order in the sample is not modelled)
CreateMeal ==
    /\ dpc = "meals"
    /\ Len(all_meals) < Len(DemoMealTypes(demo_meal_count))
    /\ LET meal_type == DemoMealTypes(demo_meal_count)[Len(all_meals) + 1]
           preferred == preferred_foods(safe_foods, meal_type)
       IN  IF Min2(4, Len(preferred)) < 2
           THEN /\ dresult' = Raised("ValueError", "empty range for randrange()")
                /\ dpc' = "raised"
                /\ all_meals' = all_meals
           ELSE \E chosen \in SUBSET (1..Len(preferred)) :
                   /\ Cardinality(chosen) \in 2..Min2(4, Len(preferred))
                   /\ all_meals' = Append(all_meals,
                          CreatedMeal(SelectSeq(preferred, LAMBDA f : \E i \in chosen : preferred[i] = f), meal_type))
                   /\ dpc' = "meals"
                   /\ dresult' = dresult
    /\ UNCHANGED <<dietary_preference, allergies, demo_meal_count, adaptVars, metabVars, planVars, historyVars, prefVars>>

\* the rest of generate_meal_plan: daily totals, shopping list, the result
ReturnMealPlan ==
    /\ dpc = "meals"
    /\ Len(all_meals) = Len(DemoMealTypes(demo_meal_count))
    /\ dresult' = [success |-> TRUE,
                   meal_plan |-> all_meals,
                   daily_totals |->
                       [calories |-> SumSeq([i \in 1..Len(all_meals) |-> all_meals[i].nutrition.calories]),
                        cost |-> SumField(all_meals, "cost")],
                   shopping_list |->
                       {n \in ShoppingNames(all_meals) : InSeq(n, FoodNames)}]
    /\ dpc' = "returned"
    /\ UNCHANGED <<dietary_preference, allergies, demo_meal_count, all_meals, adaptVars, metabVars, planVars, historyVars, prefVars>>

NextDemo ==
    \/ FilterFoods
    \/ CreateMeal
    \/ ReturnMealPlan

SpecDemo == InitDemo /\ [][NextDemo]_vars

-----------------------------------------------------------------------------
(* Claims about the adaptation engine and the trend analyser (Spec) *)

Consistent(meal) == meal.calories = MacroCalories(meal)

Recalculating == {"HIGH_GLUCOSE", "POOR_SLEEP"}
Uniform == {"LOW_ACTIVITY", "HIGH_STRESS"}

AllOutsideWindow ==
    \A i \in 1..Len(samples) : samples[i].timestamp < Now - DaysBack

\* C2: adapt_meal_plan returns (meals, []) whenever the analysis yields no
\* adaptation tags, in particular for an empty sample list and for samples
\* that are all older than the 7-day window.
C2_NoTagsPassThrough ==
    pc # "start" =>
        /\ analysis.adaptations_needed = <<>> =>
              /\ pc = "done"
              /\ adapted = meals
              /\ explanations = <<>>
              /\ last_tag = "none"
        /\ AllOutsideWindow => analysis.adaptations_needed = <<>>

\* the call has returned for alarming samples that are all too old
C2_Witness ==
    /\ pc = "done"
    /\ samples # <<>>
    /\ AllOutsideWindow
    /\ \E i \in 1..Len(samples) : samples[i].glucose_mg_dl > 160
    /\ meals # <<>>
    /\ adapted = meals
    /\ explanations = <<>>

\* the analyses of a glucose series with maximum 150 and of one with 170
Analysis150 ==
    analyze_biometric_trends(<<[Blank(TsRecent) EXCEPT !.glucose_mg_dl = 150]>>)
Analysis170 ==
    analyze_biometric_trends(<<[Blank(TsRecent) EXCEPT !.glucose_mg_dl = 170]>>)

\* what HIGH_GLUCOSE did to the meals: carbs * 0.7 above a peak of 160 and
\* * 0.8 otherwise, protein * 1.1, calories recomputed
HighGlucoseApplied ==
    /\ Len(adapted) = Len(before)
    /\ \A i \in 1..Len(adapted) :
          /\ 10 * adapted[i].carbs =
                (IF analysis.trends["glucose"].maximum > 160 THEN 7 ELSE 8)
                * before[i].carbs
          /\ 10 * adapted[i].protein = 11 * before[i].protein
          /\ adapted[i].fat = before[i].fat
          /\ adapted[i].calories = MacroCalories(adapted[i])

\* C7 as stated: HIGH_GLUCOSE multiplies carbs by 0.7 (peak > 160) or 0.8,
\* protein by 1.1 and recomputes calories; for the same meals the series with
\* maximum 170 yields strictly lower carbs than the series with maximum 150.
C7_StrictlyLowerCarbs ==
    last_tag = "HIGH_GLUCOSE" =>
        /\ HighGlucoseApplied
        /\ \A i \in 1..Len(before) :
              _adapt_for_high_glucose(before, Analysis170)[1][i].carbs
                 < _adapt_for_high_glucose(before, Analysis150)[1][i].carbs

\* C7 as the code has it: the same, but the carbs of the 170 series are strictly lower
\* only for a meal that has carbs; for a meal with carbs = 0 both are 0.
C7_LowerCarbsWhenPresent ==
    last_tag = "HIGH_GLUCOSE" =>
        /\ HighGlucoseApplied
        /\ \A i \in 1..Len(before) :
              LET hi == _adapt_for_high_glucose(before, Analysis170)[1][i].carbs
                  lo == _adapt_for_high_glucose(before, Analysis150)[1][i].carbs
              IN  IF before[i].carbs > 0 THEN hi < lo ELSE hi = 0 /\ lo = 0

\* HIGH_GLUCOSE has run for a peak of 170 on a meal that has carbs
C7_Witness ==
    /\ last_tag = "HIGH_GLUCOSE"
    /\ analysis.trends["glucose"].maximum = 170
    /\ \E i \in 1..Len(before) :
          before[i].carbs > 0 /\ adapted[i].carbs < before[i].carbs

GlucoseInWindow == FieldValues(RecentData(samples), "glucose_mg_dl")

HasAlert(an, k) == \E i \in 1..Len(an.alerts) : an.alerts[i].kind = k
HasTag(an, t) ==
    \E i \in 1..Len(an.adaptations_needed) : an.adaptations_needed[i] = t

\* C8: in-window glucose samples [95, 165] raise a high-glucose alert with the
\* HIGH_GLUCOSE tag, and the glucose status is "elevated" exactly when the
\* average lies in (100, 125], "low" below 70, "normal" in [70, 100] and
\* "high" above 125.
C8_GlucoseAlertAndStatus ==
    pc # "start" /\ GlucoseInWindow # <<>> =>
        LET sum == SumSeq(GlucoseInWindow)
            n == Len(GlucoseInWindow)
            status == analysis.trends["glucose"].status
        IN  /\ GlucoseInWindow = <<95, 165>> =>
                  HasAlert(analysis, "high_glucose")
                  /\ HasTag(analysis, "HIGH_GLUCOSE")
            /\ status = "elevated" <=> (sum > 100 * n /\ sum <= 125 * n)
            /\ status = "low" <=> sum < 70 * n
            /\ status = "normal" <=> (sum >= 70 * n /\ sum <= 100 * n)
            /\ status = "high" <=> sum > 125 * n

\* the scenario of the claim has been analysed
C8_Witness ==
    /\ pc # "start"
    /\ GlucoseInWindow = <<95, 165>>
    /\ HasTag(analysis, "HIGH_GLUCOSE")
    /\ analysis.trends["glucose"].status = "high"

Quiet(rec, status) ==
    /\ "status" \in DOMAIN rec
    /\ rec.status = status
    /\ rec.alerts = <<>>
    /\ rec.adaptations = <<>>

\* C10: with no sample inside the window the analysis is trends = {} with no
\* alerts and no adaptations; otherwise a metric with no value in the window
\* has status "no_data" (weight with fewer than 2 values:
\* "insufficient_data") and empty alert and adaptation lists.
C10_MissingDataIsQuiet ==
    pc # "start" =>
        LET recent == RecentData(samples)
            t == analysis.trends
        IN  IF recent = <<>>
            THEN /\ DOMAIN t = {}
                 /\ analysis.alerts = <<>>
                 /\ analysis.adaptations_needed = <<>>
            ELSE /\ DOMAIN t =
                       {"glucose", "activity", "sleep", "heart_rate", "weight"}
                 /\ FieldValues(recent, "glucose_mg_dl") = <<>> =>
                       Quiet(t["glucose"], "no_data")
                 /\ FieldValues(recent, "steps") = <<>> =>
                       Quiet(t["activity"], "no_data")
                 /\ FieldValues(recent, "sleep_hours") = <<>> =>
                       Quiet(t["sleep"], "no_data")
                 /\ FieldValues(recent, "heart_rate") = <<>> =>
                       Quiet(t["heart_rate"], "no_data")
                 /\ Len(FieldValues(recent, "weight_kg")) < 2 =>
                       Quiet(t["weight"], "insufficient_data")

\* an analysis of in-window samples with one weight and no glucose value
C10_Witness ==
    /\ pc # "start"
    /\ RecentData(samples) # <<>>
    /\ Len(FieldValues(RecentData(samples), "weight_kg")) = 1
    /\ GlucoseInWindow = <<>>
    /\ analysis.trends["weight"].status = "insufficient_data"
    /\ analysis.trends["glucose"].status = "no_data"

-----------------------------------------------------------------------------
(* Claims about the metabolism calculator (SpecMetab) *)

Returned(call) == mpc = call

\* C3: for every profile and every rate, calculate_calorie_needs_by_goal
\* returns min_safe_calories <= maintenance <= max_safe_calories, with
\* min_safe_calories = max(1.1 * BMR, 1200) and max_safe_calories =
\* 1.5 * base_tdee, and weight_loss and weight_gain inside the same bounds
C3_WithinSafeBounds ==
    Returned("calculate_calorie_needs_by_goal") =>
        LET r == mresult
            InBounds(x) == /\ r.min_safe_calories <= x
                           /\ x <= r.max_safe_calories
        IN  /\ r.min_safe_calories =
                   Max2((calculate_bmr(profile) \div 10) * 11, Kcal(1200))
            /\ r.max_safe_calories = (r.tdee_breakdown.base_tdee \div 2) * 3
            /\ InBounds(r.maintenance)
            /\ InBounds(r.weight_loss)
            /\ InBounds(r.weight_gain)

\* C4 as stated: for every rate > 0 the result has weight_loss < maintenance
\* < weight_gain, strictly, also when the safety clamp is active
C4_StrictlyOrdered ==
    (Returned("calculate_calorie_needs_by_goal") /\ rate > 0) =>
        /\ mresult.weight_loss < mresult.maintenance
        /\ mresult.maintenance < mresult.weight_gain

\* C4 as the code has it: for every rate > 0 the three targets are ordered
\* weight_loss <= maintenance <= weight_gain; the order is strict on both
\* sides when the base TDEE lies above min_safe_calories, and when it does
\* not, weight_loss and maintenance are both min_safe_calories
C4_OrderedStrictAboveFloor ==
    (Returned("calculate_calorie_needs_by_goal") /\ rate > 0) =>
        LET r == mresult
            base_tdee == r.tdee_breakdown.base_tdee
        IN  /\ r.weight_loss <= r.maintenance
            /\ r.maintenance <= r.weight_gain
            /\ base_tdee > r.min_safe_calories =>
                   /\ r.weight_loss < r.maintenance
                   /\ r.maintenance < r.weight_gain
            /\ base_tdee <= r.min_safe_calories =>
                   /\ r.weight_loss = r.min_safe_calories
                   /\ r.maintenance = r.min_safe_calories

\* the clamp is active on the weight-loss target of a profile whose base
\* TDEE lies above the floor, and on all of a profile's targets under it
C4_Witness ==
    /\ Returned("calculate_calorie_needs_by_goal")
    /\ rate > 0
    /\ mresult.weight_loss = mresult.min_safe_calories
    /\ mresult.weight_loss < mresult.maintenance
    /\ mresult.weight_gain = mresult.max_safe_calories

AllFactorsOne(factors) == \A k \in DOMAIN factors : factors[k] = 1000

\* C5 as stated: for the scenario profile without biometric samples
\* calculate_tdee returns bmr = 1705.0 and base_tdee = adaptive_tdee =
\* 2642.75
C5_ScenarioTdeeAsStated ==
    (Returned("calculate_tdee") /\ profile = ScenarioProfile) =>
        /\ mresult.bmr = Kcal(1705)
        /\ mresult.base_tdee = (Kcal(1705) \div 20) * 31
        /\ mresult.adaptive_tdee = mresult.base_tdee

\* C5 as the code has it: for the scenario profile without biometric samples
\* calculate_tdee returns bmr = 1720.0 and base_tdee = adaptive_tdee =
\* 1720 * 1.55 = 2666.0, and all adaptive factors are 1.0
C5_ScenarioTdee ==
    (Returned("calculate_tdee") /\ profile = ScenarioProfile) =>
        /\ mresult.bmr = Kcal(1720)
        /\ mresult.base_tdee = Kcal(2666)
        /\ mresult.adaptive_tdee = Kcal(2666)
        /\ AllFactorsOne(mresult.adaptive_factors)

C5_Witness ==
    /\ Returned("calculate_tdee")
    /\ profile = ScenarioProfile
    /\ mresult.bmr = Kcal(1720)
    /\ mresult.adaptive_tdee = Kcal(2666)

\* the profile that differs from p in the sex only
Twin(p) ==
    [p EXCEPT !.sex = IF Lower(p.sex) = "male" THEN "female" ELSE "male"]

ExceedsBy166(own, other) ==
    IF Lower(profile.sex) = "male" THEN own - other = Kcal(166)
    ELSE other - own = Kcal(166)

\* C6: of two profiles with the same age, height and weight, one male and
\* one female, the male one has a Mifflin-St Jeor BMR exactly 166 above the
\* female one, in MetabolismCalculator.calculate_bmr and in
\* UserProfile.calculate_bmr
C6_MaleExceedsFemaleBy166 ==
    /\ Returned("calculate_bmr") =>
           ExceedsBy166(mresult, calculate_bmr(Twin(profile)))
    /\ Returned("UserProfile.calculate_bmr") =>
           ExceedsBy166(mresult, UserProfile_calculate_bmr(Twin(profile)))

C6_Witness ==
    /\ Returned("UserProfile.calculate_bmr")
    /\ profile.sex = "female"
    /\ UserProfile_calculate_bmr(Twin(profile)) = mresult + Kcal(166)
    /\ calculate_bmr(Twin(profile)) = calculate_bmr(profile) + Kcal(166)

-----------------------------------------------------------------------------
(* Claims about the optimiser and the plan generator (SpecPlan) *)

EmptyAfterFilter == AllowedFoods(dietary_preferences, pool) = <<>>

TimesFactors(base_tdee, factors) ==
    BigTimes(BigTimes(BigTimes(BigTimes(BigTimes(BigOf(base_tdee),
        factors.recovery_status), factors.activity_consistency),
        factors.glucose_regulation), factors.stress_level),
        factors.sleep_quality)

WithHistory == adaptive /\ recent_biometrics # <<>>

\* C13: calculate_tdee without biometric history or with adaptive == False
\* returns five factors of 1.0 and adaptive_tdee == base_tdee == bmr *
\* activity multiplier; with history, adaptive_tdee == base_tdee * the
\* product of the five returned factors.
C13_AdaptiveTdeeIsBaseTimesFactors ==
    Returned("calculate_tdee_from") =>
        /\ BigTimes(BigOf(mresult.base_tdee), 1000)
               = BigTimes(BigOf(mresult.bmr),
                          ActivityValue(profile.activity_level))
        /\ DOMAIN mresult.adaptive_factors
               = {"sleep_quality", "stress_level", "glucose_regulation",
                  "activity_consistency", "recovery_status"}
        /\ IF WithHistory
           THEN mresult.adaptive_tdee
                    = TimesFactors(mresult.base_tdee, mresult.adaptive_factors)
           ELSE /\ AllFactorsOne(mresult.adaptive_factors)
                /\ mresult.adaptive_tdee = mresult.base_tdee

\* a history that moves the sleep and the recovery factor
C13_Witness ==
    /\ Returned("calculate_tdee_from")
    /\ WithHistory
    /\ mresult.adaptive_factors.sleep_quality < 950
    /\ mresult.adaptive_factors.recovery_status < 1000


\* C11: with no biometric samples and a non-empty pool of allowed foods,
\* get_metabolic_insights returns a well-formed insights record and
\* MealPlanGenerator.generate_meal_plan returns success == True.
C11_NoBiometricsStillSucceeds ==
    (/\ ppc = "generate_meal_plan"
     /\ recent_biometrics = <<>>
     /\ _get_available_foods(dietary_preferences, pool) # <<>>)
    => /\ presult.success
       /\ ~get_metabolic_insights(profile, recent_biometrics).raised


-----------------------------------------------------------------------------
(* Claims about the engine (SpecPlan) *)

EngineReturned ==
    ppc \in {"engine.generate_meal_plan", "engine.get_nutrition_insights"}

\* C12: PersonalizedNutritionEngine.generate_meal_plan and
\* get_nutrition_insights never raise for any user_data, missing fields
\* included: they return a record that contains 'success', and whenever
\* success is False the record carries an 'error' message.
C12_EngineAlwaysReturnsAResult ==
    EngineReturned =>
        /\ "success" \in DOMAIN presult
        /\ ~presult.success =>
               /\ "error" \in DOMAIN presult
               /\ presult.error # ""

\* a user_data with a name only, and one whose processing raises
C12_Witness ==
    /\ ppc = "engine.generate_meal_plan"
    /\ \/ user_data = [name |-> "Test User"]
       \/ presult.error = "Engine error: 'date'"
    /\ ~presult.success


\* adaptive_tdee of calculate_tdee(profile, biometric_data), as a limb
\* sequence in units of 10^-15 of a tick whatever the branch
AdaptiveTdeeOf(p, biometric_data) ==
    LET tdee_data == calculate_tdee_from(p, biometric_data, TRUE)
    IN  IF biometric_data = <<>>
        THEN BigTimes(Prod(tdee_data.adaptive_factors),
                      tdee_data.adaptive_tdee)
        ELSE tdee_data.adaptive_tdee

\* calorie_needs['calories'], the target that generate_meal_plan hands to
\* optimize_meal_plan; None when the optimizer is not reached
HandedTarget(p, biometric_data) ==
    LET calorie_needs == _calculate_calorie_requirements(p, biometric_data)
    IN  IF calorie_needs.raised THEN None ELSE calorie_needs.calories

\* C14: the calorie target that MealPlanGenerator.generate_meal_plan hands to
\* optimize_meal_plan is the adaptive target: two runs that differ only in
\* biometric samples producing different adaptive_tdee give the optimizer
\* different calorie targets.
C14_OptimizerGetsAdaptiveTarget ==
    ppc = "generate_meal_plan" =>
        \A other \in PlanHistoryDom :
            AdaptiveTdeeOf(profile, other)
                # AdaptiveTdeeOf(profile, recent_biometrics)
            => HandedTarget(profile, other)
                   # HandedTarget(profile, recent_biometrics)

-----------------------------------------------------------------------------
(* Claims about sequences of calls on one instance (SpecCalls) *)

\* the result of the last call, had it been made on a new instance
OnNewInstance ==
    CASE ppc = "optimize_meal_plan" ->
             optimize_meal_plan(FreshPredictor, dietary_preferences, pool,
                                target, _determine_meal_types(meal_count))
      [] ppc = "generate_meal_plan" ->
             generate_meal_plan(FreshPredictor, profile, dietary_preferences,
                                ProfileMealHistory, pool,
                                _determine_meal_types(meal_count),
                                recent_biometrics)
      [] ppc = "engine.generate_meal_plan" ->
             PersonalizedNutritionEngine_generate_meal_plan(
                 FreshPredictor, user_data, recent_biometrics, meal_count,
                 pool)
      [] ppc = "engine.get_nutrition_insights" ->
             get_nutrition_insights(user_data, recent_biometrics)

-----------------------------------------------------------------------------
(* Claims about what the engine serves (SpecPlan) *)

VegetarianUser(ud) ==
    /\ "dietary_preferences" \in DOMAIN ud
    /\ "vegetarian" \in ud.dietary_preferences.dietary_restrictions

\* meat_items of test_vegetarian_meal_plan: any(meat in item.lower())
HasMeat(item) ==
    WordsIn(item) \cap {"chicken", "beef", "pork", "turkey", "fish", "salmon"}
        # {}

-----------------------------------------------------------------------------
(* Claims about the standalone generator (SpecDemo) *)

\* C17: standalone generate_meal_plan never raises, for every dietary
\* preference and every allergy list: with at least one safe food it returns
\* success == True with only foods of the filtered safe set (no allergen of
\* the list, dietary type admitted by the preference), without safe foods
\* success == False with an error.
C17_StandaloneNeverRaises ==
    /\ dpc # "raised"
    /\ dpc = "returned" =>
           IF safe_foods # <<>>
           THEN /\ dresult.success
                /\ \A i \in 1..Len(dresult.meal_plan) :
                       \A j \in 1..Len(dresult.meal_plan[i].foods) :
                           InSeq(LowerUnderscore(dresult.meal_plan[i].foods[j].name), safe_foods)
           ELSE /\ ~dresult.success
                /\ dresult.error # ""

-----------------------------------------------------------------------------
(* Claims about the number of meals (SpecPlan) *)

RequestedTypes == _determine_meal_types(meal_count)

\* C18: on success optimize_meal_plan returns exactly one meal per requested
\* meal type, in the requested order, each with exactly one item, and
\* total_nutrition is the field-wise sum of the meals; through the engine
\* the number of meals equals meal_count for meal_count in 1..5 and 3 for
\* any other value (on a food database that holds a food).
C18_OneMealPerRequestedType ==
    /\ (ppc = "optimize_meal_plan" /\ presult.success) =>
           /\ Len(presult.meals) = Len(RequestedTypes)
           /\ \A i \in 1..Len(RequestedTypes) :
                  /\ presult.meals[i].meal_type = RequestedTypes[i]
                  /\ Len(presult.meals[i].items) = 1
           /\ \A f \in {"calories", "protein", "carbs", "fat"} :
                  presult.total_nutrition[f] = SumField(presult.meals, f)
    /\ (ppc = "engine.generate_meal_plan" /\ pool # <<>>) =>
           Len(presult.meals) = IF meal_count \in 1..5 THEN meal_count ELSE 3

-----------------------------------------------------------------------------
(* Claims about the retention windows (SpecHistory) *)

AddReturned == hpc \in {"add_biometric_data", "add_meal_history"}

InOrderOfInsertion(entries) ==
    \A i, j \in 1..Len(entries) : i < j => entries[i].n < entries[j].n

\* what a call on a list must leave: the entries of the list before the call
\* and the added entry that are inside the window, nothing else, in the
\* order of insertion
Retains(after, listed, entry, stamp(_), cutoff) ==
    /\ \A i \in 1..Len(after) : stamp(after[i]) >= cutoff
    /\ InOrderOfInsertion(after)
    /\ \A i \in 1..Len(after) : after[i] = entry \/ InSeq(after[i], listed)
    /\ \A i \in 1..Len(listed) :
          stamp(listed[i]) >= cutoff => InSeq(listed[i], after)
    /\ InSeq(entry, after) <=> stamp(entry) >= cutoff

TimestampOf(b) == b.timestamp
DateOf(m) == m.date

\* C19 as stated: immediately after each add_biometric_data or
\* add_meal_history call, every retained biometric sample has timestamp >=
\* the time of the call - 30 days and every retained meal has date >= the
\* date of the call - 90 days, the entries inside the window are kept in
\* insertion order and an entry added already older than the window is not
\* retained.
C19_BothListsWithinTheirWindows ==
    AddReturned =>
        /\ \A i \in 1..Len(profile_biometric_data) :
              profile_biometric_data[i].timestamp >= clock - 30
        /\ \A i \in 1..Len(profile_meal_history) :
              profile_meal_history[i].date >= clock - 90
        /\ InOrderOfInsertion(profile_biometric_data)
        /\ InOrderOfInsertion(profile_meal_history)
        /\ InSeq(last_call.entry, profile_biometric_data \o profile_meal_history)
               <=> (IF hpc = "add_biometric_data"
                    THEN last_call.entry.timestamp >= clock - 30
                    ELSE last_call.entry.date >= clock - 90)

\* C19, amended: a call filters the list it adds to and leaves the other
\* list as it was.  After add_biometric_data every retained sample has
\* timestamp >= the time of the call - 30 days, after add_meal_history every
\* retained meal has date >= the date of the call - 90 days; the list holds
\* exactly its earlier entries inside the window and the added entry when it
\* is inside, in insertion order.
C19_CalledListWithinItsWindow ==
    /\ hpc = "add_biometric_data" =>
           /\ Retains(profile_biometric_data, last_call.biometric_data, last_call.entry, TimestampOf, clock - 30)
           /\ profile_meal_history = last_call.meal_history
    /\ hpc = "add_meal_history" =>
           /\ Retains(profile_meal_history, last_call.meal_history, last_call.entry, DateOf, clock - 90)
           /\ profile_biometric_data = last_call.biometric_data

\* a call that keeps a sample from the edge of the window and evicts an
\* older one
C19_Witness ==
    /\ hpc = "add_biometric_data"
    /\ \E i \in 1..Len(profile_biometric_data) :
          /\ profile_biometric_data[i].timestamp = clock - 30
          /\ profile_biometric_data[i] # last_call.entry
    /\ Len(profile_biometric_data) <= Len(last_call.biometric_data)
    /\ last_call.entry.timestamp = clock

-----------------------------------------------------------------------------
(* Claims about the order of the adaptations (Spec) *)

\* the place of a tag in the order glucose, activity, sleep, heart rate /
\* stress, weight
TagRank(tag) ==
    CASE tag = "HIGH_GLUCOSE" -> 1
      [] tag = "LOW_ACTIVITY" -> 2
      [] tag = "POOR_SLEEP" -> 3
      [] tag = "HIGH_STRESS" -> 4
      [] tag = "WEIGHT_CHANGE" -> 5

\* the multiplier <<numerator, denominator>> of a tag for protein, carbs or
\* fat
MacroMultiplier(tag, nutrient, an) ==
    CASE tag = "HIGH_GLUCOSE" ->
             (CASE nutrient = "carbs" ->
                       IF an.trends["glucose"].maximum > 160 THEN <<7, 10>>
                       ELSE <<8, 10>>
                [] nutrient = "protein" -> <<11, 10>>
                [] OTHER -> <<1, 1>>)
      [] tag = "LOW_ACTIVITY" -> <<17, 20>>
      [] tag = "POOR_SLEEP" ->
             (CASE nutrient = "protein" -> <<23, 20>>
                [] nutrient = "carbs" -> <<19, 20>>
                [] OTHER -> <<1, 1>>)
      [] tag = "HIGH_STRESS" -> <<19, 20>>
      [] tag = "WEIGHT_CHANGE" ->
             IF an.trends["weight"].total_change_kg > 1 THEN <<9, 10>>
             ELSE IF an.trends["weight"].total_change_kg < -1
             THEN (IF nutrient = "protein" THEN <<11, 10>> ELSE <<51, 50>>)
             ELSE <<1, 1>>

\* x times the multipliers of the tags, one after the other
RECURSIVE Composed(_, _, _, _)
Composed(x, tags, nutrient, an) ==
    IF tags = <<>> THEN x
    ELSE LET mult == MacroMultiplier(Head(tags), nutrient, an)
         IN  Composed(MulRat(x, mult[1], mult[2]), Tail(tags), nutrient, an)

\* the tags whose strategies have been applied so far
AppliedTags == SubSeq(analysis.adaptations_needed, 1, idx - 1)

\* C20: analyze_biometric_trends emits the adaptation tags in the order
\* glucose, activity, sleep, heart rate / stress, weight; adapt_meal_plan
\* applies the strategies in that order, each to the meal list that the
\* previous strategy produced, so that the macros are the original macros
\* times the multipliers of the tags in the order of emission (the heart
\* rate analysis can emit its tag twice, and then its multiplier counts
\* twice).
C20_StrategiesComposeInEmissionOrder ==
    pc \in {"adapting", "done"} =>
        /\ \A i, j \in 1..Len(analysis.adaptations_needed) :
              i < j => TagRank(analysis.adaptations_needed[i])
                           <= TagRank(analysis.adaptations_needed[j])
        /\ adapted = ApplyStrategies(AppliedTags, meals, <<>>, analysis)[1]
        /\ Len(adapted) = Len(meals)
        /\ \A i \in 1..Len(meals) :
              \A nutrient \in {"protein", "carbs", "fat"} :
                  adapted[i][nutrient] =
                      Composed(meals[i][nutrient], AppliedTags, nutrient, analysis)

\* two strategies have been applied, and the second one on the original
\* meals would have given other meals
C20_Witness ==
    /\ pc = "done"
    /\ Len(analysis.adaptations_needed) >= 2
    /\ meals # <<>>
    /\ adapted # Strategy(last_tag, meals, analysis)[1]

-----------------------------------------------------------------------------
(* Claims about the stress tag and the explanations (Spec) *)

\* the heart rates of the samples inside the window
WindowHeartRates == FieldValues(RecentData(samples), "heart_rate")

AverageAbove100 ==
    WindowHeartRates # <<>> /\ MeanGT(Mean(WindowHeartRates), 100)
DeviationAbove20 ==
    WindowHeartRates # <<>> /\ StdGT(WindowHeartRates, 20)

\* how often a tag occurs in a list of tags
RECURSIVE Occurrences(_, _)
Occurrences(tag, tags) ==
    IF tags = <<>> THEN 0
    ELSE (IF Head(tags) = tag THEN 1 ELSE 0) + Occurrences(tag, Tail(tags))

\* x * 0.95, n times
RECURSIVE TimesStress(_, _)
TimesStress(x, n) == IF n = 0 THEN x ELSE TimesStress(MulRat(x, 19, 20), n - 1)

Nutrients == {"calories", "protein", "carbs", "fat"}

\* C21: when the heart rates inside the window have an average above 100
\* and a standard deviation above 20, adaptations_needed holds HIGH_STRESS
\* twice and the stress strategy runs twice, so calories, protein, carbs
\* and fat of every meal are multiplied by 0.95 * 0.95 = 0.9025; when one of
\* the two conditions holds the tag occurs once and the multiplier is 0.95.
C21_StressTagCompounds ==
    pc = "done" =>
        LET n == Occurrences("HIGH_STRESS", analysis.adaptations_needed)
        IN  /\ n = (IF AverageAbove100 THEN 1 ELSE 0)
                   + (IF DeviationAbove20 THEN 1 ELSE 0)
            /\ n = Len(analysis.adaptations_needed) =>
                   /\ Len(adapted) = Len(meals)
                   /\ \A i \in 1..Len(meals) : \A f \in Nutrients :
                          adapted[i][f] = TimesStress(meals[i][f], n)
            /\ n = 2 /\ Len(analysis.adaptations_needed) = 2 =>
                   \A i \in 1..Len(meals) : \A f \in Nutrients :
                       adapted[i][f] = MulRat(meals[i][f], 361, 400)

\* both conditions hold, stress is the only tag and a meal has been scaled
C21_Witness ==
    /\ pc = "done"
    /\ AverageAbove100 /\ DeviationAbove20
    /\ analysis.adaptations_needed = <<"HIGH_STRESS", "HIGH_STRESS">>
    /\ meals # <<>>
    /\ adapted[1].calories = MulRat(meals[1].calories, 361, 400)
    /\ adapted[1].calories < meals[1].calories

\* C22: the explanation list returned by adapt_meal_plan has exactly one
\* non-empty explanation per tag of adaptations_needed, in the same order;
\* every emitted WEIGHT_CHANGE tag (a change of more than 2 kg) falls in the
\* gain or the loss branch of the weight strategy, never in the branch with
\* the empty explanation.
C22_OneExplanationPerTag ==
    pc = "done" =>
        /\ Len(explanations) = Len(analysis.adaptations_needed)
        /\ \A i \in 1..Len(explanations) :
               /\ explanations[i] # <<>>
               /\ explanations[i][1] = analysis.adaptations_needed[i]
               /\ explanations[i][1] = "WEIGHT_CHANGE" =>
                      explanations[i][2] \in {"gain", "loss"}

\* a weight tag among others has been explained
C22_Witness ==
    /\ pc = "done"
    /\ Len(analysis.adaptations_needed) >= 2
    /\ \E i \in 1..Len(explanations) :
           /\ explanations[i][1] = "WEIGHT_CHANGE"
           /\ explanations[i][2] = "loss"

-----------------------------------------------------------------------------
(* Claims about the adaptive factors (SpecWindow) *)

\* the n samples of a history with the latest timestamps, latest first
MostRecent(history, n) == FirstN(SortByTimestampReverse(history), n)

FactorsReturned ==
    /\ mpc = "calculate_tdee_from"
    /\ recent_biometrics # <<>>

\* C23: each adaptive factor of calculate_tdee is computed from the most
\* recent samples of the history: glucose and stress from the 5 most
\* recent, sleep and activity from the 7 most recent, recovery from the 3
\* most recent, so that older samples of a longer history do not matter.
C23_FactorsFromMostRecentSamples ==
    FactorsReturned =>
        /\ mresult.adaptive_factors.glucose_regulation =
               _calculate_glucose_factor(MostRecent(recent_biometrics, 5))
        /\ mresult.adaptive_factors.stress_level =
               _calculate_stress_factor(MostRecent(recent_biometrics, 5))
        /\ mresult.adaptive_factors.sleep_quality =
               _calculate_sleep_factor(MostRecent(recent_biometrics, 7))
        /\ mresult.adaptive_factors.activity_consistency =
               _calculate_activity_factor(MostRecent(recent_biometrics, 7))
        /\ mresult.adaptive_factors.recovery_status =
               _calculate_recovery_factor(MostRecent(recent_biometrics, 3))

\* the sleep hours of a history of at most seven samples
AllSleepHours == FieldValues(recent_biometrics, "sleep_hours")

\* the sleep factor as a function of the average <<sum, count>> of the sleep
\* hours: 1.0 in [7, 9], 0.95 - 0.02 * (6 - avg) under 6, 0.98 over 10,
\* and 1.0 otherwise
SleepFactorIs(factor, avg) ==
    IF avg[2] = 0 THEN factor = 1000
    ELSE IF avg[1] >= 7 * avg[2] /\ avg[1] <= 9 * avg[2] THEN factor = 1000
    ELSE IF avg[1] < 6 * avg[2]
    THEN factor * avg[2] = 950 * avg[2] - 20 * (6 * avg[2] - avg[1])
    ELSE IF avg[1] > 10 * avg[2] THEN factor = 980
    ELSE factor = 1000

InRange(factor) == 920 <= factor /\ factor <= 1050

\* C24 as stated: for every biometric history each of the five adaptive
\* factors returned by calculate_tdee lies in [0.92, 1.05], and the sleep
\* factor is 1.0 for an average sleep in [7, 9], 0.95 - 0.02 * (6 - avg)
\* under 6 hours, 0.98 over 10 hours and 1.0 otherwise.
C24_AllFactorsWithinRange ==
    FactorsReturned =>
        /\ InRange(mresult.adaptive_factors.sleep_quality)
        /\ InRange(mresult.adaptive_factors.stress_level)
        /\ InRange(mresult.adaptive_factors.glucose_regulation)
        /\ InRange(mresult.adaptive_factors.activity_consistency)
        /\ InRange(mresult.adaptive_factors.recovery_status)
        /\ Len(recent_biometrics) <= 7 =>
               SleepFactorIs(mresult.adaptive_factors.sleep_quality,
                             <<SumSeq(AllSleepHours), Len(AllSleepHours)>>)

\* C24 as amended: the glucose, activity, stress and recovery factors lie in
\* [0.92, 1.05]; the sleep factor follows the stated formula, lies in
\* [0.83, 1.0] and is below 0.92 whenever the average sleep is under 4.5
\* hours.
C24_FactorsWithinRangeButSleep ==
    FactorsReturned =>
        /\ InRange(mresult.adaptive_factors.stress_level)
        /\ InRange(mresult.adaptive_factors.glucose_regulation)
        /\ InRange(mresult.adaptive_factors.activity_consistency)
        /\ InRange(mresult.adaptive_factors.recovery_status)
        /\ 830 <= mresult.adaptive_factors.sleep_quality
        /\ mresult.adaptive_factors.sleep_quality <= 1000
        /\ Len(recent_biometrics) <= 7 =>
               /\ SleepFactorIs(mresult.adaptive_factors.sleep_quality,
                                <<SumSeq(AllSleepHours), Len(AllSleepHours)>>)
               /\ (AllSleepHours # <<>>
                      /\ 2 * SumSeq(AllSleepHours) < 9 * Len(AllSleepHours))
                     => mresult.adaptive_factors.sleep_quality < 920

\* two nights of three hours: the sleep factor is 0.89
C24_Witness ==
    /\ FactorsReturned
    /\ AllSleepHours = <<3, 3>>
    /\ mresult.adaptive_factors.sleep_quality = 890

-----------------------------------------------------------------------------
(* Claims about the optimizer (SpecOptimizer) *)

OptimizerReturned == ppc = "optimize_meal_plan" /\ presult.success

\* the pool after "allowed_foods = [food for food in available_foods if
\* profile.is_food_allowed(food)]"
Allowed == AllowedFoods(dietary_preferences, pool)

Slots == _determine_meal_types(meal_count)

\* the share of a slot, in hundredths
ShareOf(meal_type) ==
    CASE meal_type = "breakfast" -> 25
      [] meal_type = "lunch" -> 40
      [] meal_type = "dinner" -> 35
      [] OTHER -> 33

\* the sub-target of slot i, in hundredths of a kcal
SubTarget(i) == target * ShareOf(Slots[i])

\* an allowed food that the meal of slot i names
Candidates(i) ==
    {k \in 1..Len(Allowed) : Allowed[k].name = presult.meals[i].items[1]}

\* portion is min(400, 100 * sub_target / max(calories_per_100g, 1)) grams
\* for the food and the slot, and the meal is the food scaled by it
SizedFrom(meal, food, i, portion) ==
    LET calories == IF food.calories_per_100g >= 1
                    THEN food.calories_per_100g ELSE 1
    IN  /\ portion <= 400
        /\ portion * calories <= SubTarget(i)
        /\ portion = 400 \/ portion * calories = SubTarget(i)
        /\ meal.calories = food.calories_per_100g * portion
        /\ meal.protein = food.protein_g * portion
        /\ meal.carbs = food.carbs_g * portion
        /\ meal.fat = food.fat_g * portion

ScoreOf(food, meal_type) ==
    4 * predict_satisfaction(predictor, food)
    + 3 * _calculate_nutrition_density(food)
    + 2 * CostEfficiency(food)
    + _calculate_meal_type_fit(food, meal_type)

\* C26: for each slot the optimizer selects a candidate whose score is
\* maximal over the allowed pool, and of the candidates with that score the
\* one that comes first in the order of the input.
C26_BestScoreFirstOccurrence ==
    OptimizerReturned =>
        \A i \in 1..Len(Slots) :
            LET first == CHOOSE k \in 1..Len(Allowed) :
                    /\ \A j \in 1..Len(Allowed) :
                           ScoreOf(Allowed[j], Slots[i])
                               <= ScoreOf(Allowed[k], Slots[i])
                    /\ \A j \in 1..(k - 1) :
                           ScoreOf(Allowed[j], Slots[i])
                               < ScoreOf(Allowed[k], Slots[i])
            IN  /\ presult.meals[i].items = <<Allowed[first].name>>
                /\ \E portion \in 0..400 :
                       SizedFrom(presult.meals[i], Allowed[first], i, portion)

\* turkey before chicken: the two score the same and turkey is selected
C26_Witness ==
    /\ OptimizerReturned
    /\ Len(Allowed) = 2
    /\ Allowed[1].name = "turkey breast"
    /\ Allowed[2].name = "chicken breast"
    /\ ScoreOf(Allowed[1], Slots[1]) = ScoreOf(Allowed[2], Slots[1])
    /\ presult.meals[1].items = <<"turkey breast">>
    /\ presult.meals[1].carbs > 0

\* the sum of the shares of the layout of a meal count, in hundredths
LayoutShare ==
    CASE meal_count = 1 -> 40
      [] meal_count = 2 -> 60
      [] meal_count = 4 -> 133
      [] meal_count = 5 -> 166
      [] OTHER -> 100

\* no portion of the plan was capped
Uncapped ==
    \A i \in 1..Len(presult.meals) :
        \E k \in Candidates(i) :
            /\ Allowed[k].calories_per_100g >= 1
            /\ presult.meals[i].calories = SubTarget(i)

\* C29: the sub-targets of the slots (total * 0.25 / 0.40 / 0.35 for
\* breakfast / lunch / dinner, total * 0.33 for any other slot) sum to the
\* total target for the layout of three meals, and to 0.40, 0.60, 1.33 and
\* 1.66 times the total for the layouts of 1, 2, 4 and 5 meals.
C29_SubTargetsSumToLayoutShare ==
    OptimizerReturned =>
        /\ SumSeq([i \in 1..Len(Slots) |->
                      MealTargetCalories(target, Slots[i])]) * 100
               = target * LayoutShare
        /\ Slots = DefaultMealTypes =>
               SumSeq([i \in 1..Len(Slots) |->
                          MealTargetCalories(target, Slots[i])]) = target
        /\ Uncapped =>
               presult.total_nutrition.calories = target * LayoutShare

\* five meals of oats: the plan holds 1.66 times the target
C29_Witness ==
    /\ OptimizerReturned
    /\ meal_count = 5
    /\ Uncapped
    /\ presult.total_nutrition.calories = target * 166
    /\ Len(presult.meals) = 5

-----------------------------------------------------------------------------
(* Claims about the adaptations of the engine (SpecEngine) *)

\* the meal is a food of the pool in a portion of the optimizer, with the
\* carbs lowered to 0.8 of the optimizer's carbs
CarbsLoweredOnce(meal) ==
    \E k \in 1..Len(pool) : \E portion \in 1..400 :
        /\ meal.items = <<pool[k].name>>
        /\ meal.carbs * 10 = 8 * pool[k].carbs_g * portion

\* C27: the meal list that the engine passes to adapt_meal_plan carries the
\* macros of the optimizer, so that each adaptation is applied once between
\* the optimizer and the response: for one sample inside the window with a
\* glucose in (140, 160] the carbs of every meal of the response are 0.8
\* times the carbs of the optimizer.
C27_AdaptedOnceFromOptimizerOutput ==
    (/\ ppc = "engine.generate_meal_plan"
     /\ pool # <<>>
     /\ recent_biometrics \in GlucoseOnlyDom) =>
        /\ presult.success
        /\ presult.meals # <<>>
        /\ \A i \in 1..Len(presult.meals) :
               CarbsLoweredOnce(presult.meals[i])

-----------------------------------------------------------------------------
(* Claims about the order of the samples (Spec) *)

\* the sample lists that hold the same samples as often, in any order
Reorderings(s) ==
    {[i \in 1..Len(s) |-> s[f[i]]] :
        f \in {g \in [1..Len(s) -> 1..Len(s)] :
                  \A i, j \in 1..Len(s) : g[i] = g[j] => i = j}}

\* the samples inside the window that carry a weight
Weighed == {i \in 1..Len(samples) :
               InWindow(samples[i]) /\ samples[i].weight_kg # None}

\* C28: the order in which the samples are supplied is irrelevant:
\* analyze_biometric_trends returns the same result for every permutation
\* of the same samples, also when several samples share a timestamp, and
\* the weight change is the value of the latest sample minus that of the
\* earliest sample inside the window.
C28_SampleOrderIsIrrelevant ==
    pc \in {"adapting", "done"} =>
        /\ \A other \in Reorderings(samples) :
               analyze_biometric_trends(other) = analysis
        /\ Cardinality(Weighed) >= 2 =>
               \E e, l \in Weighed :
                   /\ \A i \in Weighed :
                          /\ samples[e].timestamp <= samples[i].timestamp
                          /\ samples[i].timestamp <= samples[l].timestamp
                   /\ analysis.trends["weight"].total_change_kg =
                          samples[l].weight_kg - samples[e].weight_kg

\* ---------------------------------------------------------------------
\* C30: from a profile whose preferred_foods and avoided_foods are
\* duplicate-free and share no food, after every sequence of
\* update_food_preferences calls the two lists are still duplicate-free
\* and share no food, the food of the last call is in preferred_foods if
\* liked was True and in avoided_foods otherwise, and the call left the
\* entries of every other food as they were, in both lists.
\* ---------------------------------------------------------------------
Others(list, food_name) == SelectSeq(list, LAMBDA x : x # food_name)

C30_ListsStayDisjointAndLastCallWins ==
    fpc # "idle" =>
        /\ DupFree(profile_preferred_foods)
        /\ DupFree(profile_avoided_foods)
        /\ Disjoint(profile_preferred_foods, profile_avoided_foods)
        /\ fpc = "update_food_preferences" =>
              /\ IF last_update.liked
                 THEN ListHas(profile_preferred_foods, last_update.food_name)
                 ELSE ListHas(profile_avoided_foods, last_update.food_name)
              /\ Others(profile_preferred_foods, last_update.food_name) = Others(last_update.preferred_foods, last_update.food_name)
              /\ Others(profile_avoided_foods, last_update.food_name) = Others(last_update.avoided_foods, last_update.food_name)

\* the last call moves the first food of a longer avoided_foods to the
\* end of a non-empty preferred_foods
C30_Witness ==
    /\ fpc = "update_food_preferences"
    /\ updates = MaxUpdates
    /\ last_update.liked
    /\ Len(last_update.avoided_foods) >= 2
    /\ last_update.avoided_foods[1] = last_update.food_name
    /\ Len(last_update.preferred_foods) >= 1
    /\ Len(profile_preferred_foods) = Len(last_update.preferred_foods) + 1
    /\ Len(profile_avoided_foods) = Len(last_update.avoided_foods) - 1


=========================================================================
